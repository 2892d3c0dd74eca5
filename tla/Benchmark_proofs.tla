--------------------------- MODULE Benchmark_proofs ---------------------------
(***************************************************************************)
(* Proofs about the benchmark program: types and bounds, the one sweep of  *)
(* the warm-up, that what is told of a round is the sum over its threads,  *)
(* and that its statistics are those of all their latencies.               *)
(***************************************************************************)
EXTENDS Benchmark, Sums

-----------------------------------------------------------------------------
(***************************************************************************)
(* The sums the module speaks of are those of Sums.                        *)
(***************************************************************************)
\* What SumFunction computes is a sum.
LEMMA FunctionSum ==
  ASSUME NEW f
  PROVE  SumFunction(f) = Sum(f, DOMAIN f)
BY DEF SumFunction, SumFunctionOnSet, FoldFunctionOnSet, MapThenFoldSet, IsSum, Sums, Sum, First

\* A sum of zeros.
LEMMA SumOfZeros ==
  ASSUME NEW S, IsFiniteSet(S)
  PROVE  SumFunction([x \in S |-> 0]) = 0
<1> DEFINE f == [x \in S |-> 0]
<1>1. DOMAIN f = S /\ \A x \in S : f[x] = 0
  OBVIOUS
<1> HIDE DEF f
<1>2. \A x \in S : f[x] \in Nat
  BY <1>1
<1>3. Sum(f, S) = Sum(f, {})
  BY <1>1, <1>2, SumSupport
<1>4. SumFunction(f) = 0
  BY <1>1, <1>3, FunctionSum, SumEmpty
<1> QED
  BY <1>4 DEF f

\* One summand changes.
LEMMA SumOfChanged ==
  ASSUME NEW S, IsFiniteSet(S), NEW f \in [S -> Nat], NEW g \in [S -> Nat], NEW x \in S,
         \A y \in S \ {x} : f[y] = g[y]
  PROVE  SumFunction(g) = SumFunction(f) + g[x] - f[x]
<1>1. \A y \in S : f[y] \in Nat
  OBVIOUS
<1>2. \A y \in S : g[y] \in Nat
  OBVIOUS
<1>3. Sum(g, S) + f[x] = Sum(f, S) + g[x]
  BY <1>1, <1>2, SumChange
<1>4. Sum(f, S) \in Nat /\ f[x] \in Nat
  BY <1>1, SumElement
<1>5. Sum(g, S) \in Nat /\ g[x] \in Nat
  BY <1>2, SumElement
<1>6. SumFunction(f) = Sum(f, S) /\ SumFunction(g) = Sum(g, S)
  BY FunctionSum
<1> QED
  BY <1>3, <1>4, <1>5, <1>6

-----------------------------------------------------------------------------
(***************************************************************************)
(* Types, and the bounds of the rounds.                                    *)
(***************************************************************************)
Rates == [hits : Nat, records : Nat]

Added == SUBSET (Nat \X Thread)

MainStates == {"options", "warmup", "warming", "run", "running", "end", "terminated"}

ThreadStates == {"off", "begin", "run", "loadThroughput", "storeThroughput",
                 "loadUsedtime", "storeUsedtime", "counts", "latencies",
                 "loadStart", "storeStart", "done"}

Threads == [at : ThreadStates, sweep : BOOLEAN, start : 0 .. MAX_RECORDS - 1, seen : Added,
            hits : Nat, latencies : Seq(Latency)]

Types ==
  /\ opts \in [prepare : BOOLEAN, warmup : BOOLEAN, run : BOOLEAN, times : 0 .. RunTimes]
  /\ main \in [at : MainStates, round : Nat, times : 0 .. RunTimes, lasthitrate : Rates,
               hitrate : Rates]
  /\ thread \in [Thread -> Threads]
  /\ total \in [throughput : Added, usedtime : Added, hits : Nat, records : Nat,
                latencies : Seq(Latency)]
  /\ iterate \in BOOLEAN
  /\ sequential_startidx \in 0 .. MAX_RECORDS - 1

\* The options give no more rounds than --run says, and each round uses one up.
Rounds ==
  /\ main.at = "options" => main.round = 0 /\ main.times = 0
  /\ main.at \in {"warmup", "warming"} => main.round <= MaxWarmups
  /\ main.at \in {"run", "running"} => main.round + main.times <= RunTimes
  /\ main.round <= MaxWarmups + RunTimes

\* A thread has no more hits than records, and neither has the total.
Hits ==
  /\ \A t \in Thread :
       /\ thread[t].hits <= Records(t)
       /\ thread[t].at \in {"off", "begin", "run"} => thread[t].hits = 0
  /\ total.hits <= total.records

TypeInv == Types /\ Rounds /\ Hits

\* A remainder is a position among the records.
LEMMA ModRange ==
  ASSUME NEW a \in Nat
  PROVE  a % MAX_RECORDS \in 0 .. MAX_RECORDS - 1
  BY SMT, BoundsAssumption

\* A thread that is not started and a total of nothing have their types.
LEMMA OffType == /\ Off \in Threads /\ Off.hits = 0 /\ Off.at = "off" /\ ~Off.sweep
                 /\ Nothing \in [throughput : Added, usedtime : Added, hits : Nat,
                                 records : Nat, latencies : Seq(Latency)]
                 /\ NoRate \in Rates
<1>1. <<>> \in Seq(Latency)
  OBVIOUS
<1>2. 0 \in 0 .. MAX_RECORDS - 1
  BY SMT, BoundsAssumption
<1> QED
  BY <1>1, <1>2 DEF Off, Threads, ThreadStates, Added, Nothing, NoRate, Rates

\* The records a thread reads are some.
LEMMA RecordsNat ==
  ASSUME NEW t \in Thread
  PROVE  Records(t) \in Nat \ {0}
  BY BoundsAssumption DEF Records

\* The program starts with the right types.
LEMMA InitTypes == Init => TypeInv
<1> SUFFICES ASSUME Init PROVE TypeInv
  OBVIOUS
<1>1. opts \in [prepare : BOOLEAN, warmup : BOOLEAN, run : BOOLEAN, times : 0 .. RunTimes]
  BY SMT, BoundsAssumption DEF Init, Defaults
<1>2. main \in [at : MainStates, round : Nat, times : 0 .. RunTimes, lasthitrate : Rates,
                hitrate : Rates]
  BY SMT, BoundsAssumption, OffType DEF Init, MainStates
<1>3. thread \in [Thread -> Threads]
  BY OffType DEF Init
<1>4. sequential_startidx \in 0 .. MAX_RECORDS - 1 /\ iterate \in BOOLEAN
  BY SMT, BoundsAssumption DEF Init
<1>5. Rounds
  BY SMT, BoundsAssumption DEF Init, Rounds
<1>6. Hits
  BY SMT, BoundsAssumption, OffType DEF Init, Hits, Records, Off, Nothing
<1> QED
  BY <1>1, <1>2, <1>3, <1>4, <1>5, <1>6, OffType DEF TypeInv, Types, Init

\* What the main thread does.
LEMMA TypesMain ==
  ASSUME TypeInv,
         \/ ReadOption \/ Help \/ Begin \/ StartWarmup \/ FinishWarmup \/ EndWarmup
         \/ StartRun \/ FinishRun \/ End
  PROVE  TypeInv'
<1> USE BoundsAssumption DEF TypeInv
<1>1. CASE ReadOption
  <2>1. PICK arg \in Args, number \in 0 .. RunTimes : opts' = Option(opts, arg, number)
    BY <1>1 DEF ReadOption
  <2>2. opts' \in [prepare : BOOLEAN, warmup : BOOLEAN, run : BOOLEAN, times : 0 .. RunTimes]
    BY <2>1 DEF Types, Option, Args
  <2> QED
    BY <1>1, <2>2 DEF ReadOption, Types, Rounds, Hits, Records
<1>2. CASE Help
  BY <1>2 DEF Help, Rest, Types, MainStates, Rounds, Hits, Records
<1>3. CASE Begin
  <2>1. main' \in [at : MainStates, round : Nat, times : 0 .. RunTimes, lasthitrate : Rates,
                  hitrate : Rates]
    BY <1>3 DEF Begin, Types, MainStates
  <2>2. Rounds'
    BY <1>3 DEF Begin, Types, MainStates, Rounds
  <2> QED
    BY <1>3, <2>1, <2>2 DEF Begin, Rest, Types, Hits, Records
<1>4. CASE StartWarmup
  <2>1. /\ thread' \in [Thread -> Threads]
        /\ \A t \in Thread : thread'[t].hits = 0
    BY <1>4, OffType DEF StartWarmup, Started, Threads, ThreadStates
  <2>2. Hits'
    BY <1>4, <2>1, RecordsNat DEF StartWarmup, Hits, Records, Rest
  <2>3. Rounds'
    BY <1>4 DEF StartWarmup, Types, MainStates, Rounds
  <2>4. main' \in [at : MainStates, round : Nat, times : 0 .. RunTimes, lasthitrate : Rates,
                  hitrate : Rates]
    <3>1. main.round + 1 \in Nat /\ main.hitrate \in Rates
      BY <1>4 DEF StartWarmup, Types
    <3> QED
      BY <1>4, <3>1 DEF StartWarmup, Types, MainStates
  <2> QED
    BY <1>4, <2>1, <2>2, <2>3, <2>4 DEF StartWarmup, Rest, Types
<1>5. CASE FinishWarmup
  <2>1. main' \in [at : MainStates, round : Nat, times : 0 .. RunTimes, lasthitrate : Rates,
                  hitrate : Rates]
    BY <1>5 DEF FinishWarmup, Types, MainStates, Rates
  <2>2. Rounds'
    BY <1>5 DEF FinishWarmup, Types, MainStates, Rounds
  <2>3. /\ total' \in [throughput : Added, usedtime : Added, hits : Nat, records : Nat,
                       latencies : Seq(Latency)]
        /\ total'.hits = 0 /\ total'.records = 0
    BY <1>5 DEF FinishWarmup, Types
  <2>4. Hits'
    BY <1>5, <2>3 DEF FinishWarmup, Hits, Records
  <2> QED
    BY <1>5, <2>1, <2>2, <2>3, <2>4 DEF FinishWarmup, Types
<1>6. CASE EndWarmup
  <2>1. /\ thread' \in [Thread -> Threads]
        /\ \A t \in Thread : thread'[t].hits = 0
    BY <1>6, OffType DEF EndWarmup
  <2>2. Hits'
    BY <1>6, <2>1, RecordsNat DEF EndWarmup, Hits, Records, Rest
  <2>3. Rounds'
    BY <1>6 DEF EndWarmup, Types, MainStates, Rounds
  <2>4. main' \in [at : MainStates, round : Nat, times : 0 .. RunTimes, lasthitrate : Rates,
                  hitrate : Rates]
    BY <1>6, OffType DEF EndWarmup, Types, MainStates
  <2> QED
    BY <1>6, <2>1, <2>2, <2>3, <2>4 DEF EndWarmup, Rest, Types
<1>7. CASE StartRun
  <2>1. /\ thread' \in [Thread -> Threads]
        /\ \A t \in Thread : thread'[t].hits = 0
    BY <1>7, OffType DEF StartRun, Started, Threads, ThreadStates
  <2>2. Hits'
    BY <1>7, <2>1, RecordsNat DEF StartRun, Hits, Records
  <2>3. Rounds'
    BY <1>7 DEF StartRun, Types, MainStates, Rounds
  <2>4. main' \in [at : MainStates, round : Nat, times : 0 .. RunTimes, lasthitrate : Rates,
                  hitrate : Rates]
    <3>1. main.round + 1 \in Nat /\ main.times - 1 \in 0 .. RunTimes
      BY <1>7 DEF StartRun, Types
    <3> QED
      BY <1>7, <3>1 DEF StartRun, Types, MainStates
  <2> QED
    BY <1>7, <2>1, <2>2, <2>3, <2>4 DEF StartRun, Types
<1>8. CASE FinishRun
  <2>1. sequential_startidx' \in 0 .. MAX_RECORDS - 1
    <3>1. sequential_startidx + MaxQuery \in Nat
      BY BoundsAssumption DEF Types
    <3> QED
      BY <1>8, <3>1, ModRange DEF FinishRun
  <2>2. total' = Nothing
    BY <1>8 DEF FinishRun, Reset
  <2>3. Hits'
    BY <1>8, <2>2 DEF FinishRun, Hits, Records, Nothing
  <2>4. Rounds'
    BY <1>8 DEF FinishRun, Rounds, Types, MainStates
  <2> QED
    BY <1>8, <2>1, <2>2, <2>3, <2>4, OffType DEF FinishRun, Types, MainStates
<1>9. CASE End
  BY <1>9 DEF End, Rest, Types, MainStates, Rounds, Hits, Records
<1> QED
  BY <1>1, <1>2, <1>3, <1>4, <1>5, <1>6, <1>7, <1>8, <1>9

\* What a thread does.
LEMMA TypesThread ==
  ASSUME TypeInv, NEW t \in Thread,
         \/ BeginQueries(t) \/ Queries(t) \/ Terminate(t) \/ AddThroughput(t)
         \/ AddUsedtime(t) \/ AddCounts(t) \/ AddLatencies(t) \/ LoadStart(t)
         \/ StoreStart(t)
  PROVE  TypeInv'
<1> USE BoundsAssumption DEF TypeInv
<1>0. Types /\ thread[t] \in Threads /\ Records(t) \in Nat
  BY RecordsNat DEF Types
<1>1. CASE BeginQueries(t)
  <2>1. thread'[t] \in Threads /\ thread' \in [Thread -> Threads]
    BY <1>0, <1>1 DEF BeginQueries, Become, Types, Threads, ThreadStates, Warming
  <2>2. Hits'
    <3>1. thread'[t].hits = 0
      BY <1>0, <1>1 DEF BeginQueries, At, Become, Types, Hits, Threads
    <3>2. \A u \in Thread \ {t} : thread'[u] = thread[u]
      BY <1>1 DEF BeginQueries, Become, Types
    <3> QED
      BY <1>1, <3>1, <3>2 DEF BeginQueries, Rest, Hits, Records
  <2> QED
    BY <1>1, <2>1, <2>2 DEF BeginQueries, Rest, Types, Rounds
<1>2. CASE Queries(t)
  <2>1. PICK hits \in 0 .. Records(t),
             latencies \in IF Warming THEN {<<>>} ELSE [1 .. Records(t) -> Latency] :
          Become(t, [thread[t] EXCEPT !.at = IF Warming THEN "counts" ELSE "loadThroughput",
                                      !.hits = hits, !.latencies = latencies])
    BY <1>2 DEF Queries
  <2>2. latencies \in Seq(Latency)
    <3>1. CASE Warming
      BY <2>1, <3>1
    <3>2. CASE ~Warming
      BY <1>0, <2>1, <3>2
    <3> QED
      BY <3>1, <3>2
  <2>3. thread' \in [Thread -> Threads]
    <3> DEFINE next == IF Warming THEN "counts" ELSE "loadThroughput"
    <3>1. next \in ThreadStates /\ hits \in Nat
      BY <1>0, <2>1 DEF ThreadStates
    <3>2. thread' = [thread EXCEPT ![t] = [thread[t] EXCEPT !.at = next, !.hits = hits,
                                                          !.latencies = latencies]]
      BY <2>1 DEF Become
    <3> HIDE DEF next
    <3> QED
      BY <1>0, <2>2, <3>1, <3>2 DEF Types, Threads
  <2>4. Hits'
    <3>1. /\ thread'[t].hits = hits /\ thread'[t].sweep = thread[t].sweep
          /\ thread'[t].at \notin {"off", "begin", "run"}
      BY <1>0, <2>1 DEF Become, Types, Threads
    <3>2. \A u \in Thread \ {t} : thread'[u] = thread[u]
      BY <2>1 DEF Become, Types
    <3>3. hits <= Records(t)
      BY <1>0, <2>1
    <3> QED
      BY <1>2, <3>1, <3>2, <3>3 DEF Queries, Rest, Hits, Records
  <2> QED
    BY <1>2, <2>3, <2>4 DEF Queries, Rest, Types, Rounds
<1>3. CASE Terminate(t)
  BY <1>3 DEF Terminate, Rest, Types, MainStates, Rounds, Hits, Records
<1>4. ASSUME NEW from \in ThreadStates, NEW x \in {"throughput", "usedtime"},
             NEW to \in ThreadStates \ {"off", "begin", "run"}, Load(t, from, x, to)
      PROVE  TypeInv'
  <2>1. thread' \in [Thread -> Threads]
    BY <1>0, <1>4 DEF Load, Become, Types, Threads
  <2>2. Hits'
    BY <1>0, <1>4 DEF Load, Become, Rest, Types, Hits, Records, Threads
  <2> QED
    BY <1>4, <2>1, <2>2 DEF Load, Rest, Types, Rounds
<1>5. ASSUME NEW from \in ThreadStates, NEW x \in {"throughput", "usedtime"},
             NEW to \in ThreadStates \ {"off", "begin", "run"}, Store(t, from, x, to)
      PROVE  TypeInv'
  <2>1. thread' \in [Thread -> Threads]
    BY <1>0, <1>5 DEF Store, Become, Types, Threads, Added
  <2>2. thread[t].seen \cup {<<main.round, t>>} \in Added
    <3>1. thread[t].seen \in Added /\ main.round \in Nat
      BY <1>0 DEF Types, Threads
    <3> QED
      BY <3>1 DEF Added
  <2>3. /\ total' \in [throughput : Added, usedtime : Added, hits : Nat, records : Nat,
                       latencies : Seq(Latency)]
        /\ total'.hits = total.hits /\ total'.records = total.records
    BY <1>0, <1>5, <2>2 DEF Store, Types
  <2>4. Hits'
    BY <1>0, <1>5, <2>3 DEF Store, Become, Types, Hits, Records, Threads
  <2> QED
    BY <1>5, <2>1, <2>3, <2>4 DEF Store, Types, Rounds
<1>6. CASE AddThroughput(t)
  BY <1>4, <1>5, <1>6 DEF AddThroughput, ThreadStates
<1>7. CASE AddUsedtime(t)
  BY <1>4, <1>5, <1>7 DEF AddUsedtime, ThreadStates
<1>8. CASE AddCounts(t)
  <2>1. thread' \in [Thread -> Threads]
    BY <1>0, <1>8 DEF AddCounts, Become, Types, Threads, ThreadStates
  <2>2. thread[t].hits \in Nat /\ thread[t].hits <= Records(t)
    BY <1>0 DEF Hits, Threads
  <2>3. /\ total' \in [throughput : Added, usedtime : Added, hits : Nat, records : Nat,
                       latencies : Seq(Latency)]
        /\ total'.hits <= total'.records
    <3>1. total' = [total EXCEPT !.hits = @ + thread[t].hits, !.records = @ + Records(t)]
      BY <1>8 DEF AddCounts
    <3>2. total.hits + thread[t].hits \in Nat /\ total.records + Records(t) \in Nat
      BY <1>0, <2>2 DEF Types
    <3>3. total.hits + thread[t].hits <= total.records + Records(t)
      BY <1>0, <2>2 DEF Types, Hits
    <3> QED
      BY <1>0, <3>1, <3>2, <3>3 DEF Types
  <2>4. Hits'
    BY <1>0, <1>8, <2>3 DEF AddCounts, Become, Types, Hits, Records, Threads
  <2> QED
    BY <1>8, <2>1, <2>3, <2>4 DEF AddCounts, Types, Rounds
<1>9. CASE AddLatencies(t)
  <2>1. thread' \in [Thread -> Threads]
    BY <1>0, <1>9 DEF AddLatencies, Become, Types, Threads, ThreadStates
  <2>2. total.latencies \o thread[t].latencies \in Seq(Latency)
    BY <1>0 DEF Types, Threads
  <2>3. /\ total' \in [throughput : Added, usedtime : Added, hits : Nat, records : Nat,
                       latencies : Seq(Latency)]
        /\ total'.hits = total.hits /\ total'.records = total.records
    BY <1>0, <1>9, <2>2 DEF AddLatencies, Types
  <2>4. Hits'
    BY <1>0, <1>9, <2>3 DEF AddLatencies, Become, Types, Hits, Records, Threads
  <2> QED
    BY <1>9, <2>1, <2>3, <2>4 DEF AddLatencies, Types, Rounds
<1>10. CASE LoadStart(t)
  <2>1. thread' \in [Thread -> Threads]
    BY <1>0, <1>10 DEF LoadStart, Become, Types, Threads, ThreadStates
  <2>2. Hits'
    BY <1>0, <1>10 DEF LoadStart, Become, Rest, Types, Hits, Records, Threads
  <2> QED
    BY <1>10, <2>1, <2>2 DEF LoadStart, Rest, Types, Rounds
<1>11. CASE StoreStart(t)
  <2>1. thread' \in [Thread -> Threads]
    BY <1>0, <1>11 DEF StoreStart, Become, Types, Threads, ThreadStates
  <2>2. Hits'
    BY <1>0, <1>11 DEF StoreStart, Become, Types, Hits, Records, Threads
  <2>3. thread[t].start + Records(t) \in Nat
    BY <1>0 DEF Threads
  <2>4. sequential_startidx' \in 0 .. MAX_RECORDS - 1 /\ iterate' \in BOOLEAN
    BY <1>0, <1>11, <2>3, ModRange DEF StoreStart, Types, Threads
  <2> QED
    BY <1>11, <2>1, <2>2, <2>4 DEF StoreStart, Types, Rounds
<1> QED
  BY <1>1, <1>2, <1>3, <1>6, <1>7, <1>8, <1>9, <1>10, <1>11

\* They stay when nothing happens.
LEMMA StutterTypes == TypeInv /\ UNCHANGED vars => TypeInv'
  BY DEF TypeInv, Types, Rounds, Hits, Records, vars

\* Types, rounds and hits are right always.
LEMMA TypeInvInvariant == Spec => []TypeInv
<1>1. TypeInv /\ [Next]_vars => TypeInv'
  BY TypesMain, TypesThread, StutterTypes DEF Next
<1> QED
  BY <1>1, InitTypes, PTL DEF Spec

\* Options, rounds, threads and totals stay within their types: no thread counts
\* more hits than it reads records, and the rounds are those asked for
\* (main.cpp:25-62, 119-129, 168-209).
THEOREM TypeCorrect == Spec => []TypeOK
<1>1. TypeInv => TypeOK
  <2> SUFFICES ASSUME TypeInv PROVE TypeOK
    OBVIOUS
  <2>1. main.round \in 0 .. MaxWarmups + RunTimes /\ total.hits \in 0 .. total.records
    BY BoundsAssumption DEF TypeInv, Types, Rounds, Hits
  <2> QED
    BY <2>1 DEF TypeInv, Types, Threads, ThreadStates, MainStates, Added, TypeOK
<1> QED
  BY <1>1, TypeInvInvariant, PTL

-----------------------------------------------------------------------------
(***************************************************************************)
(* Where the threads of the warm-up and of the run can be.                 *)
(***************************************************************************)
Places ==
  \A t \in Thread :
    /\ Warming => thread[t].at \notin {"loadThroughput", "storeThroughput", "loadUsedtime",
                                      "storeUsedtime", "latencies"}
    /\ main.at = "running" => thread[t].at \notin {"loadStart", "storeStart"}

\* The two halves of an addition.
LEMMA LoadThread ==
  ASSUME Types, NEW t \in Thread, NEW from \in ThreadStates,
         NEW x \in {"throughput", "usedtime"}, NEW to \in ThreadStates, Load(t, from, x, to)
  PROVE  /\ main.at \in {"warming", "running"} /\ thread[t].at = from
         /\ \A u \in Thread \ {t} : thread'[u] = thread[u]
         /\ thread'[t].at = to /\ thread'[t].seen = total[x]
         /\ thread'[t].sweep = thread[t].sweep /\ thread'[t].hits = thread[t].hits
         /\ thread'[t].latencies = thread[t].latencies
         /\ main' = main /\ total' = total /\ iterate' = iterate /\ log' = log
  BY DEF Load, At, Become, Rest, Types, Threads

\* The second half.
LEMMA StoreThread ==
  ASSUME Types, NEW t \in Thread, NEW from \in ThreadStates,
         NEW x \in {"throughput", "usedtime"}, NEW to \in ThreadStates,
         Store(t, from, x, to)
  PROVE  /\ main.at \in {"warming", "running"} /\ thread[t].at = from
         /\ \A u \in Thread \ {t} : thread'[u] = thread[u]
         /\ thread'[t].at = to /\ thread'[t].seen = {}
         /\ thread'[t].sweep = thread[t].sweep /\ thread'[t].hits = thread[t].hits
         /\ thread'[t].latencies = thread[t].latencies
         /\ \A y \in {"throughput", "usedtime", "hits", "records", "latencies"} :
              total'[y] = IF y = x THEN thread[t].seen \cup {<<main.round, t>>} ELSE total[y]
         /\ main' = main /\ iterate' = iterate /\ log' = log
  BY DEF Store, At, Become, Types, Threads

\* The steps that add a thread's throughput or time change nothing else.
LEMMA AddThread ==
  ASSUME Types, NEW t \in Thread, AddThroughput(t) \/ AddUsedtime(t)
  PROVE  /\ \A u \in Thread \ {t} : thread'[u] = thread[u]
         /\ thread[t].at \in {"loadThroughput", "storeThroughput", "loadUsedtime", "storeUsedtime"}
         /\ thread'[t].at \in {"storeThroughput", "loadUsedtime", "storeUsedtime", "counts"}
         /\ thread'[t].sweep = thread[t].sweep
         /\ thread'[t].latencies = thread[t].latencies
         /\ main' = main /\ iterate' = iterate
         /\ total'.hits = total.hits /\ total'.records = total.records
         /\ total'.latencies = total.latencies
<1> DEFINE Done(from, x, to) == Load(t, from, x, to) \/ Store(t, from, x, to)
<1>1. ASSUME NEW from \in ThreadStates, NEW x \in {"throughput", "usedtime"},
             NEW to \in ThreadStates, Done(from, x, to)
      PROVE  /\ \A u \in Thread \ {t} : thread'[u] = thread[u]
             /\ thread[t].at = from /\ thread'[t].at = to
             /\ thread'[t].sweep = thread[t].sweep
             /\ thread'[t].latencies = thread[t].latencies
             /\ main' = main /\ iterate' = iterate
             /\ total'.hits = total.hits /\ total'.records = total.records
             /\ total'.latencies = total.latencies
  <2>1. CASE Load(t, from, x, to)
    BY <2>1, LoadThread
  <2>2. CASE Store(t, from, x, to)
    <3>1. /\ \A u \in Thread \ {t} : thread'[u] = thread[u]
          /\ thread[t].at = from /\ thread'[t].at = to
          /\ thread'[t].sweep = thread[t].sweep
          /\ thread'[t].latencies = thread[t].latencies
          /\ main' = main /\ iterate' = iterate
      BY <2>2, StoreThread
    <3>2. \A y \in {"throughput", "usedtime", "hits", "records", "latencies"} :
            y # x => total'[y] = total[y]
      BY <2>2, StoreThread
    <3> QED
      BY <3>1, <3>2
  <2> QED
    BY <1>1, <2>1, <2>2
<1>2. {"loadThroughput", "storeThroughput", "loadUsedtime", "storeUsedtime", "counts"}
        \subseteq ThreadStates
  BY DEF ThreadStates
<1>3. \/ Done("loadThroughput", "throughput", "storeThroughput")
      \/ Done("storeThroughput", "throughput", "loadUsedtime")
      \/ Done("loadUsedtime", "usedtime", "storeUsedtime")
      \/ Done("storeUsedtime", "usedtime", "counts")
  BY DEF AddThroughput, AddUsedtime
<1> HIDE DEF Done
<1>4. CASE Done("loadThroughput", "throughput", "storeThroughput")
  BY <1>1, <1>2, <1>4
<1>5. CASE Done("storeThroughput", "throughput", "loadUsedtime")
  BY <1>1, <1>2, <1>5
<1>6. CASE Done("loadUsedtime", "usedtime", "storeUsedtime")
  BY <1>1, <1>2, <1>6
<1>7. CASE Done("storeUsedtime", "usedtime", "counts")
  BY <1>1, <1>2, <1>7
<1> QED
  BY <1>3, <1>4, <1>5, <1>6, <1>7

\* A thread is where its round lets it be.
LEMMA PlacesInvariant == Spec => []Places
<1>1. Init => Places
  BY DEF Init, Places, Warming
<1>2. TypeInv /\ Places /\ [Next]_vars => Places'
  <2> SUFFICES ASSUME TypeInv, Places, [Next]_vars PROVE Places'
    OBVIOUS
  <2>0. Types /\ \A t \in Thread : thread[t] \in Threads
    BY DEF TypeInv, Types
  <2>1. CASE \/ ReadOption \/ Help \/ Begin \/ FinishWarmup \/ EndWarmup \/ FinishRun \/ End
    <3>1. main'.at \notin {"warming", "running"}
      BY <2>0, <2>1 DEF ReadOption, Help, Begin, FinishWarmup, EndWarmup, FinishRun, End, Types
    <3> QED
      BY <3>1 DEF Places, Warming
  <2>2. CASE StartWarmup \/ StartRun
    <3>1. \A t \in Thread : thread'[t].at = "begin"
      BY <2>2 DEF StartWarmup, StartRun, Started, Off
    <3> QED
      BY <3>1 DEF Places
  <2>3. ASSUME NEW t \in Thread,
               \/ BeginQueries(t) \/ Queries(t) \/ AddThroughput(t) \/ AddUsedtime(t)
               \/ AddCounts(t) \/ AddLatencies(t) \/ LoadStart(t) \/ StoreStart(t)
        PROVE  Places'
    <3>1. main' = main /\ main.at \in {"warming", "running"}
      BY <2>3 DEF BeginQueries, Queries, AddThroughput, AddUsedtime, AddCounts, AddLatencies,
                  LoadStart, StoreStart, Load, Store, At
    <3>2. \A u \in Thread \ {t} : thread'[u] = thread[u]
      BY <2>0, <2>3 DEF BeginQueries, Queries, AddThroughput, AddUsedtime, AddCounts,
                        AddLatencies, LoadStart, StoreStart, Load, Store, Become, Types
    <3>3. /\ Warming => thread'[t].at \notin {"loadThroughput", "storeThroughput",
                                              "loadUsedtime", "storeUsedtime", "latencies"}
          /\ main.at = "running" => thread'[t].at \notin {"loadStart", "storeStart"}
      <4>1. CASE BeginQueries(t)
        BY <2>0, <4>1 DEF BeginQueries, Become, Types, Threads
      <4>2. CASE Queries(t)
        BY <2>0, <4>2 DEF Queries, Become, Types, Threads, Warming
      <4>3. CASE AddThroughput(t)
        BY <2>0, <4>3, LoadThread, StoreThread DEF AddThroughput, ThreadStates, Places
      <4>4. CASE AddUsedtime(t)
        BY <2>0, <4>4, LoadThread, StoreThread DEF AddUsedtime, ThreadStates, Places
      <4>5. CASE AddCounts(t)
        BY <2>0, <4>5 DEF AddCounts, Become, Types, Threads, Warming
      <4>6. CASE AddLatencies(t) \/ StoreStart(t)
        BY <2>0, <4>6 DEF AddLatencies, StoreStart, Become, Types, Threads
      <4>7. CASE LoadStart(t)
        BY <2>0, <4>7 DEF LoadStart, At, Become, Types, Threads, Places
      <4> QED
        BY <2>3, <4>1, <4>2, <4>3, <4>4, <4>5, <4>6, <4>7
    <3> QED
      BY <3>1, <3>2, <3>3 DEF Places, Warming
  <2>4. ASSUME NEW t \in Thread, Terminate(t)
        PROVE  Places'
    BY <2>0, <2>4 DEF Terminate, Places, Warming, Types
  <2>5. CASE UNCHANGED vars
    BY <2>5 DEF vars, Places, Warming
  <2> QED
    BY <2>1, <2>2, <2>3, <2>4, <2>5 DEF Next
<1> QED
  BY <1>1, <1>2, TypeInvInvariant, PTL DEF Spec

-----------------------------------------------------------------------------
(***************************************************************************)
(* The sweep.  In the first round a thread that comes to begin finds       *)
(* iterate set, or another has swept; the one that has swept and is done   *)
(* has set it back.                                                        *)
(***************************************************************************)
SomeSweep == \E t \in Thread : thread[t].sweep

SweepInv ==
  /\ main.at \in {"options", "warmup"} /\ main.round = 0 => iterate
  /\ main.at = "warmup" /\ main.round > 0 => ~iterate
  /\ Warming =>
       /\ main.round > 0
       /\ \A t \in Thread : thread[t].at = "begin" => ~thread[t].sweep
       /\ main.round = 1 =>
            /\ ~iterate => SomeSweep
            /\ \A t \in Thread : /\ thread[t].at = "done" /\ thread[t].sweep => ~iterate
                                 /\ thread[t].at # "begin" /\ ~thread[t].sweep => SomeSweep
       /\ main.round > 1 => ~iterate /\ ~SomeSweep

\* A step of a thread in the warm-up that changes neither iterate nor sweep.
LEMMA SweepKept ==
  ASSUME SweepInv, NEW t \in Thread, \A u \in Thread \ {t} : thread'[u] = thread[u],
         thread'[t].sweep = thread[t].sweep,
         thread[t].at # "begin", thread'[t].at \notin {"begin", "done"},
         main' = main, iterate' = iterate
  PROVE  SweepInv'
<1>1. SomeSweep' <=> SomeSweep
  BY DEF SomeSweep
<1> QED
  BY <1>1 DEF SweepInv, Warming

\* Every step keeps what holds of the sweep.
LEMMA SweepStep == TypeInv /\ Places /\ SweepInv /\ [Next]_vars => SweepInv'
<1> SUFFICES ASSUME TypeInv, Places, SweepInv, [Next]_vars PROVE SweepInv'
  OBVIOUS
<1>0. Types
  BY DEF TypeInv
<1>1. CASE ReadOption
  BY <1>1 DEF ReadOption, SweepInv, Warming
<1>2. CASE Help \/ End
  BY <1>0, <1>2 DEF Help, End, Rest, Types, SweepInv, Warming
<1>3. CASE Begin
  BY <1>0, <1>3 DEF Begin, Rest, Types, SweepInv, Warming, TypeInv, Rounds
<1>4. CASE StartWarmup
  <2>1. \A t \in Thread : thread'[t].at = "begin" /\ ~thread'[t].sweep
    BY <1>4 DEF StartWarmup, Started, Off
  <2>2. /\ main.at = "warmup" /\ main'.at = "warming"
        /\ main.round \in Nat /\ main'.round = main.round + 1
    BY <1>0, <1>4 DEF StartWarmup, Types
  <2>3. iterate' = iterate
    BY <1>4 DEF StartWarmup, Rest
  <2>4. CASE main.round = 0
    BY <2>1, <2>2, <2>3, <2>4 DEF SweepInv, Warming, SomeSweep
  <2>5. CASE main.round > 0
    BY <2>1, <2>2, <2>3, <2>5 DEF SweepInv, Warming, SomeSweep
  <2> QED
    BY <2>2, <2>4, <2>5
<1>5. CASE FinishWarmup
  <2>1. /\ main.at = "warming" /\ main'.at = "warmup" /\ main'.round = main.round
        /\ iterate' = iterate /\ main.round \in Nat
    BY <1>0, <1>5 DEF FinishWarmup, Types
  <2>2. ~iterate
    <3>1. Warming /\ (main.round = 1 \/ main.round > 1)
      BY <2>1 DEF SweepInv, Warming
    <3>2. \A t \in Thread : thread[t].at = "done"
      BY <1>5 DEF FinishWarmup, Joined
    <3>3. Thread # {}
      BY BoundsAssumption
    <3>4. CASE main.round = 1
      <4>1. SomeSweep
        BY <3>1, <3>2, <3>3, <3>4 DEF SweepInv, SomeSweep
      <4>2. PICK t \in Thread : thread[t].sweep
        BY <4>1 DEF SomeSweep
      <4> QED
        BY <3>1, <3>2, <3>4, <4>2 DEF SweepInv, Warming
    <3>5. CASE main.round > 1
      BY <3>1, <3>5 DEF SweepInv
    <3> QED
      BY <3>1, <3>4, <3>5
  <2> QED
    BY <2>1, <2>2 DEF SweepInv, Warming
<1>6. CASE EndWarmup \/ StartRun \/ FinishRun
  <2>1. main'.at \in {"run", "running"}
    BY <1>0, <1>6 DEF EndWarmup, StartRun, FinishRun, Types
  <2> QED
    BY <2>1 DEF SweepInv, Warming
<1>7. ASSUME NEW t \in Thread, BeginQueries(t)
      PROVE  SweepInv'
  <2>1. /\ \A u \in Thread \ {t} : thread'[u] = thread[u]
        /\ thread[t].at = "begin" /\ thread'[t].at = "run"
        /\ thread'[t].sweep = (Warming /\ iterate)
        /\ main' = main /\ iterate' = iterate
    BY <1>0, <1>7 DEF BeginQueries, At, Become, Rest, Types, Threads
  <2>2. Warming /\ main.round = 1 => SomeSweep'
    <3> SUFFICES ASSUME Warming, main.round = 1 PROVE SomeSweep'
      OBVIOUS
    <3>1. CASE iterate
      BY <2>1, <3>1 DEF SomeSweep
    <3>2. CASE ~iterate
      BY <2>1, <3>2 DEF SweepInv, SomeSweep
    <3> QED
      BY <3>1, <3>2
  <2>3. Warming /\ main.round > 1 => ~SomeSweep'
    BY <2>1 DEF SweepInv, SomeSweep
  <2>4. \A u \in Thread : thread'[u].at = "done" => thread'[u] = thread[u]
    BY <2>1
  <2>5. \A u \in Thread : thread'[u].at = "begin" => thread'[u] = thread[u]
    BY <2>1
  <2> QED
    BY <2>1, <2>2, <2>3, <2>4, <2>5 DEF SweepInv, Warming
<1>8. ASSUME NEW t \in Thread, Queries(t)
      PROVE  SweepInv'
  <2>1. /\ \A u \in Thread \ {t} : thread'[u] = thread[u]
        /\ thread'[t].sweep = thread[t].sweep
        /\ thread'[t].at = IF Warming THEN "counts" ELSE "loadThroughput"
    BY <1>0, <1>8 DEF Queries, Become, Types, Threads
  <2>2. main' = main /\ iterate' = iterate /\ thread[t].at = "run"
    BY <1>8 DEF Queries, At, Rest
  <2>3. thread'[t].at \notin {"begin", "done"}
    BY <2>1
  <2> QED
    BY <2>1, <2>2, <2>3, SweepKept
<1>9. ASSUME NEW t \in Thread, Terminate(t)
      PROVE  SweepInv'
  BY <1>0, <1>9 DEF Terminate, SweepInv, Warming, Types
<1>10. ASSUME NEW t \in Thread,
              AddThroughput(t) \/ AddUsedtime(t) \/ AddCounts(t) \/ LoadStart(t)
       PROVE  SweepInv'
  <2>1. main' = main /\ iterate' = iterate /\ thread[t].at # "begin"
    BY <1>10 DEF AddThroughput, AddUsedtime, AddCounts, LoadStart, Load, Store, Rest, At
  <2>2. thread[t] \in Threads
    BY <1>0 DEF Types
  <2>3. /\ \A u \in Thread \ {t} : thread'[u] = thread[u]
        /\ thread'[t].sweep = thread[t].sweep
        /\ thread'[t].at \notin {"begin", "done"}
    <3>1. CASE AddThroughput(t)
      BY <1>0, <3>1, AddThread
    <3>2. CASE AddUsedtime(t)
      BY <1>0, <3>2, AddThread
    <3>3. CASE AddCounts(t)
      BY <1>0, <2>2, <3>3 DEF AddCounts, Become, Threads, Types
    <3>4. CASE LoadStart(t)
      BY <1>0, <2>2, <3>4 DEF LoadStart, Become, Threads, Types
    <3> QED
      BY <1>10, <3>1, <3>2, <3>3, <3>4
  <2> QED
    BY <2>1, <2>3, SweepKept
<1>11. ASSUME NEW t \in Thread, AddLatencies(t)
       PROVE  SweepInv'
  <2>1. main.at = "running" /\ main' = main
    BY <1>11 DEF AddLatencies, At, Places, Warming
  <2> QED
    BY <2>1 DEF SweepInv, Warming
<1>12. ASSUME NEW t \in Thread, StoreStart(t)
       PROVE  SweepInv'
  <2>1. /\ \A u \in Thread \ {t} : thread'[u] = thread[u]
        /\ thread[t].at = "storeStart" /\ thread'[t].at = "done"
        /\ thread'[t].sweep = thread[t].sweep
        /\ main' = main /\ iterate' = (iterate /\ ~thread[t].sweep)
    BY <1>0, <1>12 DEF StoreStart, At, Become, Types, Threads
  <2>2. SomeSweep' <=> SomeSweep
    BY <2>1 DEF SomeSweep
  <2>3. ~iterate => ~iterate'
    BY <2>1
  <2>4. thread[t].sweep => SomeSweep /\ ~iterate'
    BY <2>1 DEF SomeSweep
  <2>5. Warming
    BY <1>12 DEF StoreStart, At, Places, Warming
  <2> QED
    BY <2>1, <2>2, <2>3, <2>4, <2>5 DEF SweepInv, Warming
<1>13. CASE UNCHANGED vars
  BY <1>13 DEF vars, SweepInv, Warming, SomeSweep
<1> QED
  BY <1>1, <1>2, <1>3, <1>4, <1>5, <1>6, <1>7, <1>8, <1>9, <1>10, <1>11, <1>12, <1>13 DEF Next

\* It holds always.
LEMMA SweepInvariant == Spec => []SweepInv
<1>1. Init => SweepInv
  BY DEF Init, SweepInv, Warming
<1> QED
  BY <1>1, SweepStep, TypeInvInvariant, PlacesInvariant, PTL DEF Spec

\* The warm-up sweeps the records in its first round, by one thread at least, and
\* never again, although iterate is read and written without a lock
\* (main.cpp:135-149).
THEOREM SweepOnce == Spec => SweptFirst
<1>1. ASSUME TypeInv, SweepInv, FinishWarmup
      PROVE  main.round = 1 <=> \E t \in Thread : thread[t].sweep
  <2>1. Warming /\ main.round \in Nat /\ \A t \in Thread : thread[t].at = "done"
    BY <1>1 DEF FinishWarmup, Joined, Warming, TypeInv, Types
  <2>2. main.round = 1 \/ main.round > 1
    BY <1>1, <2>1 DEF SweepInv
  <2>3. main.round = 1 => SomeSweep
    BY <1>1, <2>1, BoundsAssumption DEF SweepInv, SomeSweep
  <2>4. main.round > 1 => ~SomeSweep /\ main.round # 1
    BY <1>1, <2>1 DEF SweepInv
  <2> QED
    BY <2>2, <2>3, <2>4 DEF SomeSweep
<1>2. TypeInv /\ SweepInv /\ [Next]_vars =>
        [FinishWarmup => (main.round = 1 <=> \E t \in Thread : thread[t].sweep)]_vars
  BY <1>1
<1> QED
  BY <1>2, TypeInvInvariant, SweepInvariant, PTL DEF Spec, SweptFirst

-----------------------------------------------------------------------------
(***************************************************************************)
(* What is told of a round.  The hits and the records in the total are     *)
(* those of the threads that have added theirs; of the throughput and the  *)
(* time, which are read and then written, what a thread has seen and what  *)
(* the total holds are of this round.                                      *)
(***************************************************************************)
Counted(t) == thread[t].at \in {"latencies", "loadStart", "storeStart", "done"}

CountedHits == [t \in Thread |-> IF Counted(t) THEN thread[t].hits ELSE 0]

CountedRecords == [t \in Thread |-> IF Counted(t) THEN Records(t) ELSE 0]

CountsInv ==
  /\ main.at \in {"warming", "running"} =>
       total.hits = SumFunction(CountedHits) /\ total.records = SumFunction(CountedRecords)
  /\ main.at \in {"options", "warmup", "run"} => total.hits = 0 /\ total.records = 0

\* What the threads have counted are numbers.
LEMMA CountedNat ==
  ASSUME Types
  PROVE  CountedHits \in [Thread -> Nat] /\ CountedRecords \in [Thread -> Nat]
  BY RecordsNat DEF Types, Threads, CountedHits, CountedRecords

\* A step that leaves who has counted what.
LEMMA CountsKept ==
  ASSUME CountsInv, main' = main, total'.hits = total.hits, total'.records = total.records,
         \A t \in Thread : /\ Counted(t)' <=> Counted(t)
                           /\ Counted(t) => /\ thread'[t].hits = thread[t].hits
                                            /\ thread'[t].sweep = thread[t].sweep
  PROVE  CountsInv'
<1>1. \A t \in Thread : Counted(t) => Records(t)' = Records(t)
  BY DEF Records
<1>2. CountedHits' = CountedHits /\ CountedRecords' = CountedRecords
  BY <1>1 DEF CountedHits, CountedRecords
<1> QED
  BY <1>2 DEF CountsInv

\* No thread has counted yet.
LEMMA CountsZero ==
  ASSUME \A t \in Thread : ~Counted(t)
  PROVE  SumFunction(CountedHits) = 0 /\ SumFunction(CountedRecords) = 0
<1>1. CountedHits = [t \in Thread |-> 0] /\ CountedRecords = [t \in Thread |-> 0]
  BY DEF CountedHits, CountedRecords
<1> QED
  BY <1>1, SumOfZeros, BoundsAssumption

\* Every step keeps the totals the sums over the threads that have counted.
LEMMA CountsStep == TypeInv /\ Places /\ CountsInv /\ [Next]_vars => CountsInv'
<1> SUFFICES ASSUME TypeInv, Places, CountsInv, [Next]_vars PROVE CountsInv'
  OBVIOUS
<1>0. Types /\ \A t \in Thread : thread[t] \in Threads
  BY DEF TypeInv, Types
<1>1. CASE ReadOption
  BY <1>1 DEF ReadOption, CountsInv, CountedHits, CountedRecords, Counted, Records
<1>2. CASE Help \/ Begin \/ End
  <2>1. /\ main.at \in {"options", "run"} /\ main'.at \in {"warmup", "run", "end"}
        /\ total' = total
    BY <1>0, <1>2 DEF Help, Begin, End, Rest, Types
  <2> QED
    BY <2>1 DEF CountsInv
<1>3. CASE EndWarmup
  <2>1. main.at = "warmup" /\ main'.at = "run" /\ total' = total
    BY <1>0, <1>3 DEF EndWarmup, Rest, Types
  <2> QED
    BY <2>1 DEF CountsInv
<1>4. CASE FinishWarmup \/ FinishRun
  <2>1. main'.at \in {"warmup", "run"} /\ total'.hits = 0 /\ total'.records = 0
    <3>1. CASE FinishWarmup
      BY <1>0, <3>1 DEF FinishWarmup, Types
    <3>2. CASE FinishRun
      BY <1>0, <3>2 DEF FinishRun, Reset, Nothing, Types
    <3> QED
      BY <1>4, <3>1, <3>2
  <2> QED
    BY <2>1 DEF CountsInv
<1>5. CASE StartWarmup \/ StartRun
  <2>1. \A t \in Thread : ~Counted(t)'
    BY <1>5 DEF StartWarmup, StartRun, Started, Off, Counted
  <2>2. SumFunction(CountedHits)' = 0 /\ SumFunction(CountedRecords)' = 0
    <3>1. CountedHits' = [t \in Thread |-> 0] /\ CountedRecords' = [t \in Thread |-> 0]
      BY <2>1 DEF CountedHits, CountedRecords
    <3> QED
      BY <3>1, SumOfZeros, BoundsAssumption
  <2>3. /\ main.at \in {"warmup", "run"} /\ main'.at \in {"warming", "running"}
        /\ total' = total
    BY <1>0, <1>5 DEF StartWarmup, StartRun, Rest, Types
  <2> QED
    BY <2>2, <2>3 DEF CountsInv
<1>6. ASSUME NEW t \in Thread, BeginQueries(t) \/ Queries(t)
      PROVE  CountsInv'
  <2>1. /\ \A u \in Thread \ {t} : thread'[u] = thread[u]
        /\ thread[t].at \in {"begin", "run"}
        /\ thread'[t].at \in {"run", "counts", "loadThroughput"}
        /\ main' = main /\ total' = total
    <3>1. CASE BeginQueries(t)
      BY <1>0, <3>1 DEF BeginQueries, At, Become, Rest, Types, Threads
    <3>2. CASE Queries(t)
      BY <1>0, <3>2 DEF Queries, At, Become, Rest, Types, Threads
    <3> QED
      BY <1>6, <3>1, <3>2
  <2> QED
    BY <2>1, CountsKept DEF Counted
<1>7. ASSUME NEW t \in Thread, AddThroughput(t) \/ AddUsedtime(t)
      PROVE  CountsInv'
  <2>1. /\ \A u \in Thread \ {t} : thread'[u] = thread[u]
        /\ ~Counted(t) /\ ~Counted(t)'
        /\ main' = main /\ total'.hits = total.hits /\ total'.records = total.records
    BY <1>0, <1>7, AddThread DEF Counted
  <2>2. \A u \in Thread \ {t} : Counted(u)' <=> Counted(u)
    BY <2>1 DEF Counted
  <2> QED
    BY <2>1, <2>2, CountsKept
<1>8. ASSUME NEW t \in Thread, AddCounts(t)
      PROVE  CountsInv'
  <2>1. /\ \A u \in Thread \ {t} : thread'[u] = thread[u]
        /\ ~Counted(t) /\ Counted(t)'
        /\ thread'[t].hits = thread[t].hits /\ thread'[t].sweep = thread[t].sweep
        /\ main' = main
        /\ total'.hits = total.hits + thread[t].hits
        /\ total'.records = total.records + Records(t)
        /\ main.at \in {"warming", "running"}
    BY <1>0, <1>8 DEF AddCounts, At, Become, Types, Threads, Counted
  <2>2. \A u \in Thread \ {t} : (Counted(u)' <=> Counted(u)) /\ Records(u)' = Records(u)
    BY <2>1 DEF Counted, Records
  <2>3. TypeInv'
    BY <1>8, TypesThread
  <2>4. /\ CountedHits \in [Thread -> Nat] /\ CountedRecords \in [Thread -> Nat]
        /\ CountedHits' \in [Thread -> Nat] /\ CountedRecords' \in [Thread -> Nat]
    <3>1. CountedHits \in [Thread -> Nat] /\ CountedRecords \in [Thread -> Nat]
      BY <1>0, CountedNat
    <3>2. (CountedHits \in [Thread -> Nat] /\ CountedRecords \in [Thread -> Nat])'
      BY <2>3, CountedNat, PTL DEF TypeInv
    <3> QED
      BY <3>1, <3>2
  <2>5. SumFunction(CountedHits') = SumFunction(CountedHits) + thread[t].hits
    <3>1. CountedHits[t] = 0 /\ CountedHits'[t] = thread[t].hits
      BY <2>1 DEF CountedHits
    <3>2. \A u \in Thread \ {t} : CountedHits[u] = CountedHits'[u]
      BY <2>1, <2>2 DEF CountedHits
    <3>3. SumFunction(CountedHits') = SumFunction(CountedHits) + CountedHits'[t] - CountedHits[t]
      BY <2>4, <3>2, SumOfChanged, BoundsAssumption
    <3>4. SumFunction(CountedHits) = total.hits /\ total.hits \in Nat /\ thread[t].hits \in Nat
      BY <1>0, <2>1 DEF CountsInv, Types, Threads
    <3> QED
      BY <3>1, <3>3, <3>4
  <2>6. SumFunction(CountedRecords') = SumFunction(CountedRecords) + Records(t)
    <3>1. CountedRecords[t] = 0 /\ CountedRecords'[t] = Records(t)
      BY <2>1 DEF CountedRecords, Records
    <3>2. \A u \in Thread \ {t} : CountedRecords[u] = CountedRecords'[u]
      BY <2>1, <2>2 DEF CountedRecords
    <3>3. SumFunction(CountedRecords') =
            SumFunction(CountedRecords) + CountedRecords'[t] - CountedRecords[t]
      BY <2>4, <3>2, SumOfChanged, BoundsAssumption
    <3>4. SumFunction(CountedRecords) = total.records /\ total.records \in Nat
          /\ Records(t) \in Nat
      BY <1>0, <2>1, RecordsNat DEF CountsInv, Types
    <3> QED
      BY <3>1, <3>3, <3>4
  <2>7. SumFunction(CountedHits)' = SumFunction(CountedHits')
        /\ SumFunction(CountedRecords)' = SumFunction(CountedRecords')
    OBVIOUS
  <2> QED
    BY <2>1, <2>5, <2>6, <2>7 DEF CountsInv
<1>9. ASSUME NEW t \in Thread, AddLatencies(t) \/ LoadStart(t) \/ StoreStart(t)
      PROVE  CountsInv'
  <2>1. /\ \A u \in Thread \ {t} : thread'[u] = thread[u]
        /\ Counted(t) /\ Counted(t)'
        /\ thread'[t].hits = thread[t].hits /\ thread'[t].sweep = thread[t].sweep
        /\ main' = main /\ total'.hits = total.hits /\ total'.records = total.records
    <3>1. CASE AddLatencies(t)
      BY <1>0, <3>1 DEF AddLatencies, At, Become, Types, Threads, Counted
    <3>2. CASE LoadStart(t)
      BY <1>0, <3>2 DEF LoadStart, At, Become, Rest, Types, Threads, Counted
    <3>3. CASE StoreStart(t)
      BY <1>0, <3>3 DEF StoreStart, At, Become, Types, Threads, Counted
    <3> QED
      BY <1>9, <3>1, <3>2, <3>3
  <2>2. \A u \in Thread \ {t} : Counted(u)' <=> Counted(u)
    BY <2>1 DEF Counted
  <2> QED
    BY <2>1, <2>2, CountsKept
<1>10. ASSUME NEW t \in Thread, Terminate(t)
       PROVE  CountsInv'
  BY <1>0, <1>10 DEF Terminate, CountsInv, Types
<1>11. CASE UNCHANGED vars
  BY <1>11 DEF vars, CountsInv, CountedHits, CountedRecords, Counted, Records
<1> QED
  BY <1>1, <1>2, <1>3, <1>4, <1>5, <1>6, <1>7, <1>8, <1>9, <1>10, <1>11 DEF Next

\* They are always.
LEMMA CountsInvariant == Spec => []CountsInv
<1>1. Init => CountsInv
  BY DEF Init, CountsInv, Nothing
<1> QED
  BY <1>1, CountsStep, TypeInvInvariant, PlacesInvariant, PTL DEF Spec

OfRound == {main.round} \X Thread

AddedInv ==
  /\ main.at \in {"options", "warmup", "warming", "run", "end"} =>
       total.throughput = {} /\ total.usedtime = {}
  /\ main.at = "running" =>
       /\ total.throughput \subseteq OfRound /\ total.usedtime \subseteq OfRound
       /\ \A t \in Thread :
            /\ thread[t].seen \subseteq OfRound
            /\ thread[t].at \in {"loadUsedtime", "storeUsedtime", "counts", "latencies", "done"}
                 => total.throughput # {}
            /\ thread[t].at \in {"counts", "latencies", "done"} => total.usedtime # {}

\* Every step keeps the throughput and the time of this round's threads.
LEMMA AddedStep == TypeInv /\ Places /\ AddedInv /\ [Next]_vars => AddedInv'
<1> SUFFICES ASSUME TypeInv, Places, AddedInv, [Next]_vars PROVE AddedInv'
  OBVIOUS
<1>0. Types /\ \A t \in Thread : thread[t] \in Threads
  BY DEF TypeInv, Types
<1>1. CASE ReadOption
  BY <1>1 DEF ReadOption, AddedInv, OfRound
<1>2. CASE Help \/ Begin \/ End \/ StartWarmup \/ EndWarmup
  <2>1. /\ main.at \in {"options", "run", "warmup"} /\ total' = total
        /\ main'.at \in {"warmup", "warming", "run", "end"}
    BY <1>0, <1>2 DEF Help, Begin, End, StartWarmup, EndWarmup, Rest, Types
  <2> QED
    BY <2>1 DEF AddedInv
<1>3. CASE FinishWarmup
  <2>1. /\ main.at = "warming" /\ main'.at = "warmup"
        /\ total'.throughput = total.throughput /\ total'.usedtime = total.usedtime
    BY <1>0, <1>3 DEF FinishWarmup, Types
  <2> QED
    BY <2>1 DEF AddedInv
<1>4. CASE FinishRun
  <2>1. main'.at = "run" /\ total'.throughput = {} /\ total'.usedtime = {}
    BY <1>0, <1>4 DEF FinishRun, Reset, Nothing, Types
  <2> QED
    BY <2>1 DEF AddedInv
<1>5. CASE StartRun
  <2>1. main.at = "run" /\ total' = total
    BY <1>5 DEF StartRun
  <2>2. \A t \in Thread : thread'[t].at = "begin" /\ thread'[t].seen = {}
    BY <1>5 DEF StartRun, Started, Off
  <2>3. main'.at = "running"
    BY <1>0, <1>5 DEF StartRun, Types
  <2> QED
    BY <2>1, <2>2, <2>3 DEF AddedInv
\* A thread that neither reads nor writes the two, but goes on.
<1>6. ASSUME NEW t \in Thread, \A u \in Thread \ {t} : thread'[u] = thread[u],
             thread'[t].seen = thread[t].seen, main' = main,
             total'.throughput = total.throughput, total'.usedtime = total.usedtime,
             \/ main.at = "warming"
             \/ thread'[t].at \in {"run", "loadThroughput"}
             \/ thread[t].at \in {"counts", "latencies"}
      PROVE  AddedInv'
  <2>1. OfRound' = OfRound
    BY <1>6 DEF OfRound
  <2> QED
    BY <1>6, <2>1 DEF AddedInv
<1>7. ASSUME NEW t \in Thread, BeginQueries(t)
      PROVE  AddedInv'
  BY <1>0, <1>6, <1>7 DEF BeginQueries, Become, Rest, Types, Threads
<1>8. ASSUME NEW t \in Thread, Queries(t)
      PROVE  AddedInv'
  <2>1. /\ \A u \in Thread \ {t} : thread'[u] = thread[u]
        /\ thread'[t].seen = thread[t].seen /\ main' = main /\ total' = total
        /\ thread'[t].at = IF Warming THEN "counts" ELSE "loadThroughput"
    BY <1>0, <1>8 DEF Queries, Become, Rest, Types, Threads
  <2> QED
    BY <1>6, <2>1 DEF Warming
<1>9. ASSUME NEW t \in Thread, AddCounts(t)
      PROVE  AddedInv'
  BY <1>0, <1>6, <1>9 DEF AddCounts, At, Become, Types, Threads
<1>10. ASSUME NEW t \in Thread, AddLatencies(t)
       PROVE  AddedInv'
  BY <1>0, <1>6, <1>10 DEF AddLatencies, At, Become, Types, Threads
<1>11. ASSUME NEW t \in Thread, LoadStart(t)
       PROVE  AddedInv'
  BY <1>0, <1>6, <1>11 DEF LoadStart, At, Become, Rest, Types, Threads, Places
<1>12. ASSUME NEW t \in Thread, StoreStart(t)
       PROVE  AddedInv'
  BY <1>0, <1>6, <1>12 DEF StoreStart, At, Become, Types, Threads, Places
<1>13. ASSUME NEW t \in Thread, AddThroughput(t)
       PROVE  AddedInv'
  <2>1. CASE Load(t, "loadThroughput", "throughput", "storeThroughput")
    <3>1. /\ main.at \in {"warming", "running"} /\ thread[t].at = "loadThroughput"
          /\ \A u \in Thread \ {t} : thread'[u] = thread[u]
          /\ thread'[t].at = "storeThroughput" /\ thread'[t].seen = total.throughput
          /\ main' = main /\ total' = total
      BY <1>0, <2>1, LoadThread DEF ThreadStates
    <3>2. main.at = "running"
      BY <3>1 DEF Places, Warming
    <3> QED
      BY <3>1, <3>2 DEF AddedInv, OfRound
  <2>2. CASE Store(t, "storeThroughput", "throughput", "loadUsedtime")
    <3>1. /\ main.at \in {"warming", "running"} /\ thread[t].at = "storeThroughput"
          /\ \A u \in Thread \ {t} : thread'[u] = thread[u]
          /\ thread'[t].at = "loadUsedtime" /\ thread'[t].seen = {}
          /\ main' = main
          /\ total'.throughput = thread[t].seen \cup {<<main.round, t>>}
          /\ total'.usedtime = total.usedtime
      BY <1>0, <2>2, StoreThread DEF ThreadStates
    <3>2. main.at = "running"
      BY <3>1 DEF Places, Warming
    <3>3. total'.throughput \subseteq OfRound /\ total'.throughput # {}
      <4>1. thread[t].seen \subseteq OfRound
        BY <3>2 DEF AddedInv
      <4>2. <<main.round, t>> \in OfRound
        BY DEF OfRound
      <4> QED
        BY <3>1, <4>1, <4>2
    <3> QED
      BY <3>1, <3>2, <3>3 DEF AddedInv, OfRound
  <2> QED
    BY <1>13, <2>1, <2>2 DEF AddThroughput
<1>14. ASSUME NEW t \in Thread, AddUsedtime(t)
       PROVE  AddedInv'
  <2>1. CASE Load(t, "loadUsedtime", "usedtime", "storeUsedtime")
    <3>1. /\ main.at \in {"warming", "running"} /\ thread[t].at = "loadUsedtime"
          /\ \A u \in Thread \ {t} : thread'[u] = thread[u]
          /\ thread'[t].at = "storeUsedtime" /\ thread'[t].seen = total.usedtime
          /\ main' = main /\ total' = total
      BY <1>0, <2>1, LoadThread DEF ThreadStates
    <3>2. main.at = "running"
      BY <3>1 DEF Places, Warming
    <3> QED
      BY <3>1, <3>2 DEF AddedInv, OfRound
  <2>2. CASE Store(t, "storeUsedtime", "usedtime", "counts")
    <3>1. /\ main.at \in {"warming", "running"} /\ thread[t].at = "storeUsedtime"
          /\ \A u \in Thread \ {t} : thread'[u] = thread[u]
          /\ thread'[t].at = "counts" /\ thread'[t].seen = {}
          /\ main' = main
          /\ total'.usedtime = thread[t].seen \cup {<<main.round, t>>}
          /\ total'.throughput = total.throughput
      BY <1>0, <2>2, StoreThread DEF ThreadStates
    <3>2. main.at = "running"
      BY <3>1 DEF Places, Warming
    <3>3. total'.usedtime \subseteq OfRound /\ total'.usedtime # {}
      <4>1. thread[t].seen \subseteq OfRound
        BY <3>2 DEF AddedInv
      <4>2. <<main.round, t>> \in OfRound
        BY DEF OfRound
      <4> QED
        BY <3>1, <4>1, <4>2
    <3> QED
      BY <3>1, <3>2, <3>3 DEF AddedInv, OfRound
  <2> QED
    BY <1>14, <2>1, <2>2 DEF AddUsedtime
<1>15. ASSUME NEW t \in Thread, Terminate(t)
       PROVE  AddedInv'
  BY <1>0, <1>15 DEF Terminate, AddedInv, Types
<1>16. CASE UNCHANGED vars
  BY <1>16 DEF vars, AddedInv, OfRound
<1> QED
  BY <1>1, <1>2, <1>3, <1>4, <1>5, <1>7, <1>8, <1>9, <1>10, <1>11, <1>12, <1>13, <1>14, <1>15,
     <1>16 DEF Next

\* They always are.
LEMMA AddedInvariant == Spec => []AddedInv
<1>1. Init => AddedInv
  BY DEF Init, AddedInv, Nothing
<1> QED
  BY <1>1, AddedStep, TypeInvInvariant, PlacesInvariant, PTL DEF Spec

\* What is told of a round is of its threads and of no round before: every record
\* and every hit, and the throughput and the time of at least one of them
\* (main.cpp:200-209, 212-284).
THEOREM RoundTold == Spec => []LogOfRound
<1>1. Init => LogOfRound
  BY DEF Init, LogOfRound, Told
<1>2. ASSUME TypeInv, CountsInv, AddedInv, LogOfRound, [Next]_vars
      PROVE  LogOfRound'
  <2>0. Types /\ Rounds
    BY <1>2 DEF TypeInv
  <2>1. CASE FinishRun
    <3>1. \A t \in Thread : thread[t].at = "done"
      BY <2>1 DEF FinishRun, Joined
    <3>2. /\ main.at = "running" /\ main'.round = main.round /\ thread' = thread
          /\ log'.rate = [hits |-> total.hits, records |-> total.records]
          /\ log'.throughput = total.throughput /\ log'.usedtime = total.usedtime
      BY <2>0, <2>1 DEF FinishRun, Types
    <3>3. CountedHits = [t \in Thread |-> thread'[t].hits]
      BY <3>1, <3>2 DEF CountedHits, Counted
    <3>4. CountedRecords = [t \in Thread |-> Records(t)']
      BY <3>1, <3>2 DEF CountedRecords, Counted, Records
    <3>5. /\ total.hits = SumFunction([t \in Thread |-> thread'[t].hits])
          /\ total.records = SumFunction([t \in Thread |-> Records(t)'])
      BY <1>2, <3>2, <3>3, <3>4 DEF CountsInv
    <3>6. /\ total.throughput \subseteq {main.round} \X Thread /\ total.throughput # {}
          /\ total.usedtime \subseteq {main.round} \X Thread /\ total.usedtime # {}
      BY <1>2, <3>1, <3>2, BoundsAssumption DEF AddedInv, OfRound
    <3> QED
      BY <3>2, <3>5, <3>6 DEF LogOfRound
  <2>2. CASE End
    <3>1. /\ main.at = "run" /\ main'.round = main.round /\ thread' = thread /\ log' = log
      BY <2>0, <2>2 DEF End, Rest, Types
    <3>2. Told' => Told
      BY <3>1 DEF Told
    <3>3. \A t \in Thread : Records(t)' = Records(t)
      BY <3>1 DEF Records
    <3> QED
      BY <1>2, <3>1, <3>2, <3>3 DEF LogOfRound
  <2>3. CASE UNCHANGED vars
    BY <1>2, <2>3 DEF vars, LogOfRound, Told, Records
  <2>4. CASE ReadOption \/ Help \/ Begin
    <3>1. main.at = "options" /\ main'.round = main.round
      BY <2>0, <2>4 DEF ReadOption, Help, Begin, Types
    <3> QED
      BY <2>0, <3>1 DEF Rounds, LogOfRound, Told
  <2>5. CASE StartWarmup \/ FinishWarmup \/ EndWarmup \/ StartRun
    <3>1. main'.at \in {"warmup", "warming", "running"} \/ main'.round = 0
      BY <2>0, <2>5 DEF StartWarmup, FinishWarmup, EndWarmup, StartRun, Types
    <3> QED
      BY <3>1 DEF LogOfRound, Told
  <2>6. ASSUME NEW t \in Thread,
               \/ BeginQueries(t) \/ Queries(t) \/ AddThroughput(t) \/ AddUsedtime(t)
               \/ AddCounts(t) \/ AddLatencies(t) \/ LoadStart(t) \/ StoreStart(t)
        PROVE  LogOfRound'
    <3>1. main' = main /\ main.at \in {"warming", "running"}
      BY <2>6 DEF BeginQueries, Queries, AddThroughput, AddUsedtime, AddCounts, AddLatencies,
                  LoadStart, StoreStart, Load, Store, At
    <3> QED
      BY <3>1 DEF LogOfRound, Told
  <2>7. ASSUME NEW t \in Thread, Terminate(t)
        PROVE  LogOfRound'
    <3>1. main'.at = "terminated"
      BY <2>0, <2>7 DEF Terminate, Types
    <3> QED
      BY <3>1 DEF LogOfRound, Told
  <2> QED
    BY <1>2, <2>1, <2>2, <2>3, <2>4, <2>5, <2>6, <2>7 DEF Next
<1>3. TypeInv /\ CountsInv /\ AddedInv /\ LogOfRound /\ [Next]_vars => LogOfRound'
  BY <1>2
<1> QED
  BY <1>1, <1>3, TypeInvInvariant, CountsInvariant, AddedInvariant, PTL DEF Spec

-----------------------------------------------------------------------------
(***************************************************************************)
(* Sums over sequences of latencies.                                       *)
(***************************************************************************)
\* What the values of a sequence weigh.
Weights    == [Latency -> Nat]
Weight(s, w) == Sum([i \in DOMAIN s |-> w[s[i]]], DOMAIN s)

\* The positions of the values in a set.
In(s, T) == {i \in DOMAIN s : s[i] \in T}

\* Latencies are numbers.
LEMMA LatenciesNat ==
  ASSUME NEW s \in Seq(Latency)
  PROVE  /\ DOMAIN s = 1 .. Len(s) /\ Len(s) \in Nat /\ IsFiniteSet(DOMAIN s)
         /\ Cardinality(DOMAIN s) = Len(s)
         /\ \A i \in DOMAIN s : s[i] \in Latency /\ s[i] \in Nat /\ s[i] < UInt
<1>1. DOMAIN s = 1 .. Len(s) /\ Len(s) \in Nat
  OBVIOUS
<1>2. IsFiniteSet(DOMAIN s) /\ Cardinality(DOMAIN s) = Len(s)
  BY <1>1, FS_Interval
<1>3. \A i \in DOMAIN s : s[i] \in Latency
  OBVIOUS
<1>4. \A l \in Latency : l \in Nat /\ l < UInt
  BY BoundsAssumption
<1> QED
  BY <1>1, <1>2, <1>3, <1>4

\* A weight is a number.
LEMMA WeightNat ==
  ASSUME NEW s \in Seq(Latency), NEW w \in Weights
  PROVE  Weight(s, w) \in Nat
<1> DEFINE f == [i \in DOMAIN s |-> w[s[i]]]
<1>1. \A i \in DOMAIN s : f[i] \in Nat
  BY LatenciesNat DEF Weights
<1> HIDE DEF f
<1>2. Sum(f, DOMAIN s) \in Nat
  BY <1>1, LatenciesNat, SumElement
<1> QED
  BY <1>2 DEF Weight, f

\* The sum over two sets that have nothing in common.
LEMMA SumOfParts ==
  ASSUME NEW f, NEW D, IsFiniteSet(D), \A x \in D : f[x] \in Nat, NEW E \in SUBSET D
  PROVE  Sum(f, D) = Sum(f, E) + Sum(f, D \ E)
<1> DEFINE q == [x \in D |-> IF x \in E THEN f[x] ELSE 0]
           r == [x \in D |-> IF x \in E THEN 0 ELSE f[x]]
<1>1. \A x \in D : q[x] \in Nat /\ r[x] \in Nat /\ f[x] = 1 * q[x] + r[x]
  OBVIOUS
<1>2. /\ \A x \in D : q[x] \in Nat
      /\ \A x \in D : r[x] \in Nat
      /\ \A x \in D \ E : q[x] = 0
      /\ \A x \in D \ (D \ E) : r[x] = 0
      /\ \A x \in E : q[x] = f[x]
      /\ \A x \in D \ E : r[x] = f[x]
  OBVIOUS
<1> HIDE DEF q, r
<1>3. IsFiniteSet(E) /\ IsFiniteSet(D \ E) /\ D \ E \in SUBSET D
  BY FS_Subset
<1>4. Sum(f, D) = 1 * Sum(q, D) + Sum(r, D)
  BY <1>1, SumSplit
<1>5. Sum(q, D) = Sum(q, E)
  BY <1>2, SumSupport
<1>6. Sum(r, D) = Sum(r, D \ E)
  BY <1>2, <1>3, SumSupport
<1>7. Sum(q, E) = Sum(f, E)
  BY <1>2, <1>3, SumSame
<1>8. Sum(r, D \ E) = Sum(f, D \ E)
  BY <1>2, <1>3, SumSame
<1>9. Sum(q, D) \in Nat
  BY <1>2, SumElement
<1>10. Sum(r, D) \in Nat
  BY <1>2, SumElement
<1> QED
  BY <1>4, <1>5, <1>6, <1>7, <1>8, <1>9, <1>10

\* One sequence after the other weighs as much as both.
LEMMA WeightOfBoth ==
  ASSUME NEW a \in Seq(Latency), NEW b \in Seq(Latency), NEW w \in Weights
  PROVE  Weight(a \o b, w) = Weight(a, w) + Weight(b, w)
<1> DEFINE c == a \o b
           f == [i \in DOMAIN c |-> w[c[i]]]
           g == [i \in DOMAIN a |-> w[a[i]]]
           h == [i \in DOMAIN b |-> w[b[i]]]
           A == 1 .. Len(a)
           B == 1 .. Len(b)
           D == 1 .. Len(a) + Len(b)
           move == [i \in B |-> Len(a) + i]
<1>1. /\ c \in Seq(Latency) /\ DOMAIN c = D /\ DOMAIN a = A /\ DOMAIN b = B
      /\ Len(a) \in Nat /\ Len(b) \in Nat
      /\ \A i \in A : c[i] = a[i]
      /\ \A i \in B : c[Len(a) + i] = b[i]
  OBVIOUS
<1> HIDE DEF c
<1>2. \A i \in D : f[i] \in Nat
  BY <1>1, LatenciesNat DEF Weights
<1>3. \A i \in B : h[i] \in Nat
  BY <1>1, LatenciesNat DEF Weights
<1>4. IsFiniteSet(A) /\ IsFiniteSet(B) /\ IsFiniteSet(D)
  BY <1>1, FS_Interval
<1>5. A \in SUBSET D
  BY <1>1
<1>6. \A i \in A : f[i] = g[i]
  BY <1>1, <1>5
<1>7. \A i \in B : move[i] \in D \ A /\ f[move[i]] = h[i]
  BY <1>1
<1>8. \A i, j \in B : move[i] = move[j] => i = j
  BY <1>1
<1>9. D \ A = {move[i] : i \in B}
  <2>1. ASSUME NEW k \in D \ A PROVE k \in {move[i] : i \in B}
    <3>1. k - Len(a) \in B /\ move[k - Len(a)] = k
      BY <1>1
    <3> QED
      BY <3>1
  <2> QED
    BY <1>7, <2>1
<1> HIDE DEF f, g, h, move, A, B, D
<1>10. Sum(f, D) = Sum(f, A) + Sum(f, D \ A)
  BY <1>2, <1>4, <1>5, SumOfParts
<1>11. Sum(f, A) = Sum(g, A)
  BY <1>4, <1>6, SumSame
<1>12. Sum(h, B) = Sum(f, {move[i] : i \in B})
  <2>1. \A i \in B : move[i] \in D /\ f[move[i]] = h[i]
    BY <1>7
  <2> QED
    BY <1>3, <1>4, <1>8, <2>1, SumRenamed
<1>13. Sum(f, D) = Sum(g, A) + Sum(h, B)
  BY <1>9, <1>10, <1>11, <1>12
<1>14. Weight(a, w) = Sum(g, A) /\ Weight(b, w) = Sum(h, B) /\ Weight(c, w) = Sum(f, D)
  BY <1>1 DEF Weight, f, g, h
<1> QED
  BY <1>13, <1>14 DEF c

\* Nothing weighs nothing.
LEMMA WeightOfNone ==
  ASSUME NEW w
  PROVE  Weight(<<>>, w) = 0
<1>1. DOMAIN <<>> = {}
  OBVIOUS
<1> QED
  BY <1>1, SumEmpty DEF Weight

\* How many values are in a set is a weight.
Member(T) == [l \in Latency |-> IF l \in T THEN 1 ELSE 0]

\* How many values are in a set is what they weigh as its members.
LEMMA CountIsWeight ==
  ASSUME NEW s \in Seq(Latency), NEW T
  PROVE  Cardinality(In(s, T)) = Weight(s, Member(T)) /\ Member(T) \in Weights
<1> DEFINE f == [i \in DOMAIN s |-> Member(T)[s[i]]]
<1>1. \A i \in DOMAIN s : f[i] = IF s[i] \in T THEN 1 ELSE 0
  BY LatenciesNat DEF Member
<1>2. IsFiniteSet(DOMAIN s) /\ IsFiniteSet(In(s, T)) /\ In(s, T) \in SUBSET DOMAIN s
  <2>1. In(s, T) \in SUBSET DOMAIN s
    BY DEF In
  <2> QED
    BY <2>1, LatenciesNat, FS_Subset
<1> HIDE DEF f
<1>3. \A i \in DOMAIN s : f[i] \in Nat
  BY <1>1
<1>4. \A i \in DOMAIN s \ In(s, T) : f[i] = 0
  BY <1>1 DEF In
<1>5. \A i \in In(s, T) : f[i] = 1
  BY <1>1 DEF In
<1>6. Sum(f, DOMAIN s) = Sum(f, In(s, T))
  BY <1>2, <1>3, <1>4, SumSupport
<1>7. Sum(f, In(s, T)) = Cardinality(In(s, T))
  BY <1>2, <1>5, SumOfOnes
<1>8. Member(T) \in Weights
  BY DEF Member, Weights
<1> QED
  BY <1>6, <1>7, <1>8 DEF Weight, f

\* The sum of the values is one.
Itself == [l \in Latency |-> l]

\* The sum of the values is what they weigh by themselves.
LEMMA SumIsWeight ==
  ASSUME NEW s \in Seq(Latency)
  PROVE  Sum(s, DOMAIN s) = Weight(s, Itself) /\ Itself \in Weights
<1> DEFINE f == [i \in DOMAIN s |-> Itself[s[i]]]
<1>1. \A i \in DOMAIN s : f[i] = s[i]
  BY LatenciesNat DEF Itself
<1>2. Itself \in Weights
  <2>1. \A l \in Latency : l \in Nat
    BY BoundsAssumption
  <2> QED
    BY <2>1 DEF Itself, Weights
<1> HIDE DEF f
<1>3. Sum(s, DOMAIN s) = Sum(f, DOMAIN s)
  BY <1>1, LatenciesNat, SumSame
<1> QED
  BY <1>2, <1>3 DEF Weight, f

-----------------------------------------------------------------------------
(***************************************************************************)
(* The folds over a sequence.                                              *)
(***************************************************************************)
\* Among finitely many elements with a number one has the greatest.
LEMMA Greatest ==
  ASSUME NEW D, IsFiniteSet(D), D # {}, NEW f, \A x \in D : f[x] \in Nat
  PROVE  \E x \in D : \A y \in D : f[y] <= f[x]
<1> DEFINE T == {S \in SUBSET D : S = {} \/ \E x \in S : \A y \in S : f[y] <= f[x]}
<1>1. ASSUME NEW S \in SUBSET D, \A x \in S : S \ {x} \in T
      PROVE  S \in T
  <2>1. CASE S = {}
    BY <2>1
  <2>2. CASE S # {}
    <3>1. PICK x \in S : TRUE
      BY <2>2
    <3>2. CASE S \ {x} = {}
      BY <3>1, <3>2
    <3>3. CASE S \ {x} # {}
      <4>1. PICK z \in S \ {x} : \A y \in S \ {x} : f[y] <= f[z]
        BY <1>1, <3>1, <3>3
      <4>2. f[x] \in Nat /\ f[z] \in Nat /\ \A y \in S : f[y] \in Nat
        BY <3>1, <4>1
      <4>3. CASE f[x] <= f[z]
        <5>1. \A y \in S : f[y] <= f[z]
          BY <4>1, <4>3
        <5> QED
          BY <5>1, <4>1
      <4>4. CASE ~(f[x] <= f[z])
        <5>1. \A y \in S : f[y] <= f[x]
          BY <4>1, <4>2, <4>4
        <5> QED
          BY <5>1, <3>1
      <4> QED
        BY <4>3, <4>4
    <3> QED
      BY <3>2, <3>3
  <2> QED
    BY <2>1, <2>2
<1>2. \A S \in SUBSET D : (\A x \in S : S \ {x} \in T) => S \in T
  BY <1>1
<1> HIDE DEF T
<1>3. \A S \in SUBSET D : S \in T
  BY <1>2, SetInduction
<1>4. D \in T
  BY <1>3
<1> QED
  BY <1>4 DEF T

\* Max picks the last position.
LEMMA MaxIn ==
  ASSUME NEW n \in Nat, NEW S \in SUBSET (1 .. n), S # {}
  PROVE  Max(S) \in S
<1> DEFINE f == [x \in S |-> x]
<1>1. IsFiniteSet(S)
  <2>1. IsFiniteSet(1 .. n)
    BY FS_Interval
  <2> QED
    BY <2>1, FS_Subset
<1>2. \A x \in S : f[x] \in Nat /\ f[x] = x
  OBVIOUS
<1> HIDE DEF f
<1>3. \E x \in S : \A y \in S : f[y] <= f[x]
  BY <1>1, <1>2, Greatest
<1>4. \E x \in S : \A y \in S : x >= y
  BY <1>2, <1>3
<1> QED
  BY <1>4 DEF Max

\* Adding up and taking the rest of a division may be done in turn.
LEMMA RestOfSum ==
  ASSUME NEW a \in Nat, NEW b \in Nat, NEW u \in Nat \ {0}
  PROVE  ((a % u) + b) % u = (a + b) % u
<1> DEFINE q == a \div u
           r == a % u
           c == r + b
           p == c \div u
           s == c % u
           d == a + b
           e == d \div u
           t == d % u
<1>1. /\ q \in Int /\ r \in Nat /\ r < u /\ a = u * q + r
  BY SMT
<1>2. c \in Nat /\ d \in Nat
  BY <1>1
<1> HIDE DEF c, d
<1>3. p \in Int /\ s \in Nat /\ s < u /\ c = u * p + s
  BY <1>2, SMT
<1>4. e \in Int /\ t \in Nat /\ t < u /\ d = u * e + t
  BY <1>2, SMT
<1> HIDE DEF q, r, p, s, e, t
<1>5. u * (q + p) = u * q + u * p /\ u * (q + p) \in Int /\ u * e \in Int /\ u * q \in Int /\ u * p \in Int
  BY <1>1, <1>3, <1>4, SMT
<1>6. u * (q + p) + s = u * e + t
  <2>1. d = a + b /\ c = r + b
    BY DEF c, d
  <2> QED
    BY <1>1, <1>3, <1>4, <1>5, <2>1
<1> DEFINE k == q + p
<1>7. k \in Int /\ u * k + s = u * e + t
  BY <1>1, <1>3, <1>6
<1> HIDE DEF k
<1>8. k = e
  <2>1. u * (k - e) = u * k - u * e /\ u * k \in Int
    BY <1>4, <1>7, SMT
  <2>2. u * (k - e) = t - s
    BY <1>3, <1>4, <1>5, <1>7, <2>1
  <2> DEFINE m == k - e
  <2>3. m \in Int /\ u * m < u /\ u * m > -u
    BY <1>3, <1>4, <1>7, <2>2
  <2> HIDE DEF m
  <2>4. ~(m >= 1)
    <3> SUFFICES ASSUME m >= 1 PROVE FALSE
      OBVIOUS
    <3>1. u * m >= u
      BY <2>3, SMT
    <3> QED
      BY <2>3, <3>1
  <2>5. ~(m <= -1)
    <3> SUFFICES ASSUME m <= -1 PROVE FALSE
      OBVIOUS
    <3>1. u * m <= -u
      BY <2>3, SMT
    <3> QED
      BY <2>3, <3>1
  <2>6. m = 0
    BY <2>3, <2>4, <2>5
  <2> QED
    BY <1>4, <1>7, <2>6 DEF m
<1>9. s = t
  BY <1>3, <1>4, <1>5, <1>7, <1>8
<1> QED
  BY <1>9 DEF s, t, c, d, r

\* What a fold from the left computes of the positions up to one.
AddsUInt(g, s) ==
  g = [S \in SUBSET DOMAIN s |->
         IF S = {} THEN 0 ELSE (g[S \ {Max(S)}] + s[Max(S)]) % UInt]

\* One more position is taken into a sum.
LEMMA SumOfMore ==
  ASSUME NEW s \in Seq(Latency), NEW S \in SUBSET DOMAIN s, S # {}
  PROVE  /\ Max(S) \in S /\ S \ {Max(S)} \in SUBSET DOMAIN s
         /\ Sum(s, S) = Sum(s, S \ {Max(S)}) + s[Max(S)]
         /\ Sum(s, S \ {Max(S)}) \in Nat /\ s[Max(S)] \in Nat
<1>1. Max(S) \in S
  BY LatenciesNat, MaxIn
<1>2. \A i \in DOMAIN s : s[i] \in Nat
  BY LatenciesNat
<1> DEFINE x == Max(S)
<1>3. x \in S
  BY <1>1
<1> HIDE DEF x
<1>4. /\ Sum(s, S) = s[x] + Sum(s, S \ {x})
      /\ Sum(s, S) \in Nat /\ Sum(s, S \ {x}) \in Nat /\ s[x] \in Nat
  BY <1>2, <1>3, LatenciesNat, SumTake
<1>5. /\ x \in S /\ S \ {x} \in SUBSET DOMAIN s
      /\ Sum(s, S) = Sum(s, S \ {x}) + s[x]
      /\ Sum(s, S \ {x}) \in Nat /\ s[x] \in Nat
  BY <1>3, <1>4
<1> QED
  BY <1>5 DEF x

\* Adding up in an unsigned int gives what is left of the sum.
LEMMA AddedUpUInt ==
  ASSUME NEW s \in Seq(Latency), UInt # 0
  PROVE  FoldLeft(LAMBDA sum, value : (sum + value) % UInt, 0, s) = Sum(s, DOMAIN s) % UInt
<1> DEFINE rest == [S \in SUBSET DOMAIN s |-> Sum(s, S) % UInt]
<1>0. UInt \in Nat \ {0}
  BY BoundsAssumption
<1>z. 0 % UInt = 0
  BY <1>0, SMT
<1>1. AddsUInt(rest, s)
  <2>1. ASSUME NEW S \in SUBSET DOMAIN s, S # {}
        PROVE  rest[S] = (rest[S \ {Max(S)}] + s[Max(S)]) % UInt
    <3> DEFINE R == S \ {Max(S)}
               v == s[Max(S)]
    <3>1. /\ R \in SUBSET DOMAIN s /\ Sum(s, S) = Sum(s, R) + v
          /\ Sum(s, R) \in Nat /\ v \in Nat
      BY <2>1, SumOfMore
    <3>2. rest[S] = Sum(s, S) % UInt /\ rest[R] = Sum(s, R) % UInt
      BY <3>1
    <3> HIDE DEF R, v, rest
    <3>3. ((Sum(s, R) % UInt) + v) % UInt = (Sum(s, R) + v) % UInt
      BY <1>0, <3>1, RestOfSum
    <3>4. rest[S] = (rest[R] + v) % UInt
      BY <3>1, <3>2, <3>3
    <3> QED
      BY <3>4 DEF R, v
  <2>2. rest[{}] = 0
    BY <1>z, SumEmpty
  <2> QED
    BY <2>1, <2>2 DEF AddsUInt
<1>2. ASSUME NEW g, AddsUInt(g, s)
      PROVE  g[DOMAIN s] = Sum(s, DOMAIN s) % UInt
  <2> DEFINE T == {S \in SUBSET DOMAIN s : g[S] = Sum(s, S) % UInt}
  <2>1. ASSUME NEW S \in SUBSET DOMAIN s, \A x \in S : S \ {x} \in T
        PROVE  S \in T
    <3>1. CASE S = {}
      BY <1>2, <1>z, <3>1, SumEmpty DEF AddsUInt
    <3>2. CASE S # {}
      <4>1. S \ {Max(S)} \in T
        BY <2>1, <3>2, SumOfMore
      <4>2. g[S] = (g[S \ {Max(S)}] + s[Max(S)]) % UInt
        BY <1>2, <3>2 DEF AddsUInt
      <4> QED
        BY <1>0, <3>2, <4>1, <4>2, SumOfMore, RestOfSum
    <3> QED
      BY <3>1, <3>2
  <2>2. \A S \in SUBSET DOMAIN s : (\A x \in S : S \ {x} \in T) => S \in T
    BY <2>1
  <2> HIDE DEF T
  <2>3. \A S \in SUBSET DOMAIN s : S \in T
    BY <2>2, LatenciesNat, SetInduction
  <2>4. DOMAIN s \in T
    BY <2>3
  <2> QED
    BY <2>4 DEF T
<1>3. FoldLeft(LAMBDA sum, value : (sum + value) % UInt, 0, s)
        = (CHOOSE g : AddsUInt(g, s))[DOMAIN s]
  BY DEF FoldLeft, MapThenFoldSet, AddsUInt
<1> HIDE DEF rest
<1>4. AddsUInt(CHOOSE g : AddsUInt(g, s), s)
  BY <1>1
<1> QED
  BY <1>2, <1>3, <1>4

-----------------------------------------------------------------------------
(***************************************************************************)
(* The order of the latencies, and ranks.                                  *)
(***************************************************************************)
\* An order of the m elements of a set in which a function ascends.
Orders(o, m, S, f) ==
  /\ o \in [1 .. m -> S]
  /\ \A i, j \in 1 .. m : o[i] = o[j] => i = j
  /\ \A y \in S : \E i \in 1 .. m : o[i] = y
  /\ \A i, j \in 1 .. m : i < j => f[o[i]] <= f[o[j]]

\* The element with the greatest number comes last.
LEMMA OrderOfMore ==
  ASSUME NEW S, NEW f, \A y \in S : f[y] \in Nat, NEW x \in S,
         \A y \in S : f[y] <= f[x], NEW m \in Nat, NEW o, Orders(o, m, S \ {x}, f)
  PROVE  Orders([i \in 1 .. m + 1 |-> IF i = m + 1 THEN x ELSE o[i]], m + 1, S, f)
<1> DEFINE q == [i \in 1 .. m + 1 |-> IF i = m + 1 THEN x ELSE o[i]]
<1>1. /\ \A i \in 1 .. m : i \in 1 .. m + 1 /\ q[i] = o[i] /\ o[i] \in S \ {x}
      /\ m + 1 \in 1 .. m + 1 /\ q[m + 1] = x
      /\ \A i \in 1 .. m + 1 : i \in 1 .. m \/ i = m + 1
  BY DEF Orders
<1>2. q \in [1 .. m + 1 -> S]
  BY <1>1
<1> HIDE DEF q
<1>3. \A i, j \in 1 .. m + 1 : q[i] = q[j] => i = j
  BY <1>1 DEF Orders
<1>4. \A y \in S : \E i \in 1 .. m + 1 : q[i] = y
  <2>1. ASSUME NEW y \in S, y # x PROVE \E i \in 1 .. m + 1 : q[i] = y
    <3>1. PICK i \in 1 .. m : o[i] = y
      BY <2>1 DEF Orders
    <3> QED
      BY <1>1, <3>1
  <2> QED
    BY <1>1, <2>1
<1>5. ASSUME NEW i \in 1 .. m + 1, NEW j \in 1 .. m + 1, i < j
      PROVE  f[q[i]] <= f[q[j]]
  <2>1. i \in 1 .. m
    BY <1>5
  <2>2. CASE j \in 1 .. m
    BY <1>1, <1>5, <2>1, <2>2 DEF Orders
  <2>3. CASE j = m + 1
    BY <1>1, <2>1, <2>3
  <2> QED
    BY <1>1, <2>2, <2>3
<1>6. Orders(q, m + 1, S, f)
  BY <1>2, <1>3, <1>4, <1>5 DEF Orders
<1> QED
  BY <1>6 DEF q

\* Finitely many elements can be brought into the order of their numbers.
LEMMA OrderExists ==
  ASSUME NEW D, IsFiniteSet(D), NEW f, \A x \in D : f[x] \in Nat
  PROVE  \E o : Orders(o, Cardinality(D), D, f)
<1> DEFINE T == {S \in SUBSET D : \E o : Orders(o, Cardinality(S), S, f)}
<1>1. ASSUME NEW S \in SUBSET D, \A x \in S : S \ {x} \in T
      PROVE  S \in T
  <2>1. CASE S = {}
    <3>1. Cardinality(S) = 0
      BY <2>1, FS_EmptySet
    <3>2. Orders(<<>>, 0, {}, f)
      <4>1. 1 .. 0 = {} /\ <<>> \in [{} -> {}]
        BY SMT
      <4> QED
        BY <4>1 DEF Orders
    <3> QED
      BY <2>1, <3>1, <3>2
  <2>2. CASE S # {}
    <3>1. IsFiniteSet(S) /\ \A y \in S : f[y] \in Nat
      BY FS_Subset
    <3>2. PICK x \in S : \A y \in S : f[y] <= f[x]
      BY <2>2, <3>1, Greatest
    <3> DEFINE m == Cardinality(S \ {x})
    <3>3. m \in Nat /\ Cardinality(S) = m + 1
      <4>1. Cardinality(S) \in Nat /\ IsFiniteSet(S \ {x})
        BY <3>1, FS_CardinalityType, FS_RemoveElement
      <4>2. m \in Nat
        BY <4>1, FS_CardinalityType
      <4>3. m = Cardinality(S) - 1
        BY <3>1, FS_RemoveElement
      <4> HIDE DEF m
      <4> QED
        BY <4>1, <4>2, <4>3
    <3>4. PICK o : Orders(o, m, S \ {x}, f)
      BY <1>1
    <3> HIDE DEF m
    <3>5. Orders([i \in 1 .. m + 1 |-> IF i = m + 1 THEN x ELSE o[i]], m + 1, S, f)
      BY <3>1, <3>2, <3>3, <3>4, OrderOfMore
    <3>6. \E p : Orders(p, m + 1, S, f)
      BY <3>5
    <3> QED
      BY <3>3, <3>6
  <2> QED
    BY <2>1, <2>2
<1>2. \A S \in SUBSET D : (\A x \in S : S \ {x} \in T) => S \in T
  BY <1>1
<1> HIDE DEF T
<1>3. \A S \in SUBSET D : S \in T
  BY <1>2, SetInduction
<1>4. D \in T
  BY <1>3
<1> QED
  BY <1>4 DEF T

\* The latencies ascend, and each stands for one of those that came.
LEMMA SortedAscends ==
  ASSUME NEW s \in Seq(Latency)
  PROVE  \E o \in [DOMAIN s -> DOMAIN s] :
           /\ \A i, j \in DOMAIN s : o[i] = o[j] => i = j
           /\ Sorted(s) = [i \in DOMAIN s |-> s[o[i]]]
           /\ \A i, j \in DOMAIN s : i < j => Sorted(s)[i] <= Sorted(s)[j]
<1> DEFINE D == DOMAIN s
           Ascending(o) == \A i, j \in D : i < j => s[o[i]] <= s[o[j]]
           order == CHOOSE o \in [D -> D] : IsInjective(o) /\ Ascending(o)
<1>1. PICK o : Orders(o, Len(s), D, s)
  <2>1. \A i \in D : s[i] \in Nat
    BY LatenciesNat
  <2>2. IsFiniteSet(D) /\ Cardinality(D) = Len(s)
    BY LatenciesNat
  <2> HIDE DEF D
  <2>3. \E o : Orders(o, Cardinality(D), D, s)
    BY <2>1, <2>2, OrderExists
  <2> QED
    BY <2>2, <2>3
<1>2. D = 1 .. Len(s)
  BY LatenciesNat
<1>3. o \in [D -> D] /\ IsInjective(o) /\ Ascending(o)
  BY <1>1, <1>2 DEF Orders, IsInjective
<1>4. order \in [D -> D] /\ IsInjective(order) /\ Ascending(order)
  BY <1>3
<1>5. Sorted(s) = [i \in D |-> s[order[i]]]
  BY DEF Sorted
<1> HIDE DEF order
<1>6. order \in [D -> D] /\ \A i, j \in D : order[i] = order[j] => i = j
  BY <1>4 DEF IsInjective
<1>7. \A i, j \in D : i < j => Sorted(s)[i] <= Sorted(s)[j]
  BY <1>4, <1>5
<1> QED
  BY <1>5, <1>6, <1>7

AtMost(v)  == {l \in Latency : l <= v}
AtLeast(v) == {l \in Latency : l >= v}

\* At least k latencies are no greater than the k-th, and all but the first k - 1
\* are no smaller.
LEMMA Ranks ==
  ASSUME NEW s \in Seq(Latency), NEW k \in 1 .. Len(s), NEW v \in Nat
  PROVE  /\ Sorted(s)[k] <= v => Cardinality(In(s, AtMost(v))) >= k
         /\ v <= Sorted(s)[k] => Cardinality(In(s, AtLeast(v))) >= Len(s) - k + 1
<1> DEFINE D == DOMAIN s
           n == Len(s)
           r == Sorted(s)
<1>1. PICK o \in [D -> D] :
        /\ \A i, j \in D : o[i] = o[j] => i = j
        /\ r = [i \in D |-> s[o[i]]]
        /\ \A i, j \in D : i < j => r[i] <= r[j]
  BY SortedAscends
<1>2. D = 1 .. n /\ n \in Nat /\ IsFiniteSet(D) /\ k \in D
  BY LatenciesNat
<1>3. \A i \in D : o[i] \in D /\ r[i] = s[o[i]] /\ s[o[i]] \in Latency /\ r[i] \in Nat
  BY <1>1, LatenciesNat
<1> HIDE DEF D, r, n
<1>4. ASSUME NEW i \in D, NEW j \in D, i <= j PROVE r[i] <= r[j]
  <2>1. CASE i = j
    BY <1>3, <2>1
  <2>2. CASE i < j
    BY <1>1, <2>2
  <2> QED
    BY <1>2, <1>4, <2>1, <2>2
<1>5. ASSUME r[k] <= v
      PROVE  Cardinality(In(s, AtMost(v))) >= k
  <2> DEFINE f == [i \in 1 .. k |-> o[i]]
             S == In(s, AtMost(v))
  <2>1. \A i \in 1 .. k : i \in D /\ i <= k
    BY <1>2
  <2>2. \A i \in 1 .. k : o[i] \in S
    <3>1. ASSUME NEW i \in 1 .. k PROVE o[i] \in D /\ s[o[i]] \in Latency /\ s[o[i]] <= v
      <4>1. i \in D /\ r[i] <= r[k] /\ k \in D
        BY <1>2, <1>4, <2>1
      <4>2. r[i] = s[o[i]] /\ r[i] \in Nat /\ r[k] \in Nat
        BY <1>3, <4>1
      <4> QED
        BY <1>3, <1>5, <4>1, <4>2
    <3> QED
      BY <3>1 DEF In, AtMost, D
  <2>3. f \in Injection(1 .. k, S)
    <3>1. f \in [1 .. k -> S]
      BY <2>2
    <3>2. \A i, j \in 1 .. k : f[i] = f[j] => i = j
      BY <1>1, <2>1
    <3> QED
      BY <3>1, <3>2 DEF Injection, IsInjective
  <2>4. IsFiniteSet(S)
    <3>1. S \in SUBSET D
      BY DEF In, D
    <3> QED
      BY <1>2, <3>1, FS_Subset
  <2> HIDE DEF f, S
  <2>5. Cardinality(1 .. k) <= Cardinality(S)
    BY <2>3, <2>4, FS_Injection
  <2>6. Cardinality(1 .. k) = k /\ Cardinality(S) \in Nat
    <3>1. k \in Nat /\ k >= 1 /\ 1 \in Int
      BY <1>2
    <3>2. Cardinality(1 .. k) = IF 1 > k THEN 0 ELSE k - 1 + 1
      BY <3>1, FS_Interval
    <3> QED
      BY <2>4, <3>1, <3>2, FS_CardinalityType
  <2>7. Cardinality(S) >= k
    BY <1>2, <2>5, <2>6
  <2> QED
    BY <2>7 DEF S
<1>6. ASSUME v <= r[k]
      PROVE  Cardinality(In(s, AtLeast(v))) >= n - k + 1
  <2> DEFINE f == [i \in k .. n |-> o[i]]
             S == In(s, AtLeast(v))
  <2>1. \A i \in k .. n : i \in D /\ k <= i
    BY <1>2
  <2>2. \A i \in k .. n : o[i] \in S
    <3>1. ASSUME NEW i \in k .. n PROVE o[i] \in D /\ s[o[i]] \in Latency /\ s[o[i]] >= v
      <4>1. i \in D /\ r[k] <= r[i] /\ k \in D
        BY <1>2, <1>4, <2>1
      <4>2. r[i] = s[o[i]] /\ r[i] \in Nat /\ r[k] \in Nat
        BY <1>3, <4>1
      <4> QED
        BY <1>3, <1>6, <4>1, <4>2
    <3> QED
      BY <3>1 DEF In, AtLeast, D
  <2>3. f \in Injection(k .. n, S)
    <3>1. f \in [k .. n -> S]
      BY <2>2
    <3>2. \A i, j \in k .. n : f[i] = f[j] => i = j
      BY <1>1, <2>1
    <3> QED
      BY <3>1, <3>2 DEF Injection, IsInjective
  <2>4. IsFiniteSet(S)
    <3>1. S \in SUBSET D
      BY DEF In, D
    <3> QED
      BY <1>2, <3>1, FS_Subset
  <2> HIDE DEF f, S
  <2>5. Cardinality(k .. n) <= Cardinality(S)
    BY <2>3, <2>4, FS_Injection
  <2>6. Cardinality(k .. n) = n - k + 1 /\ Cardinality(S) \in Nat
    <3>1. k \in Nat /\ k <= n /\ n \in Int /\ k \in Int
      BY <1>2
    <3>2. Cardinality(k .. n) = IF k > n THEN 0 ELSE n - k + 1
      BY <3>1, FS_Interval
    <3> QED
      BY <2>4, <3>1, <3>2, FS_CardinalityType
  <2>7. Cardinality(S) >= n - k + 1
    BY <1>2, <2>5, <2>6
  <2> QED
    BY <2>7 DEF S
<1> QED
  BY <1>5, <1>6 DEF r, n

\* A whole number of hundredths, and the rest.
LEMMA Hundredths ==
  ASSUME NEW x \in Nat
  PROVE  /\ x \div 100 \in Nat /\ x % 100 \in 0 .. 99
         /\ 100 * (x \div 100) >= x - 99 /\ 100 * (x \div 100) <= x
<1> DEFINE q == x \div 100
           r == x % 100
<1>1. q \in Int /\ r \in Nat /\ r < 100 /\ x = 100 * q + r
  BY SMT
<1> HIDE DEF q, r
<1>2. q \in Nat /\ r \in 0 .. 99 /\ 100 * q >= x - 99 /\ 100 * q <= x
  BY <1>1
<1> QED
  BY <1>2 DEF q, r

\* A part of a distance is no greater than it.
LEMMA PartOf ==
  ASSUME NEW d \in Nat, NEW r \in 0 .. 99
  PROVE  (d * r) \div 100 \in 0 .. d
<1>1. d * r \in Nat /\ d * r <= 100 * d
  <2>1. d * r \in Nat
    BY SMT
  <2>2. d * (100 - r) \in Nat
    <3>1. 100 - r \in Nat
      OBVIOUS
    <3> DEFINE q == 100 - r
    <3>2. q \in Nat
      BY <3>1
    <3> HIDE DEF q
    <3>3. d * q \in Nat
      BY <3>2, SMT
    <3> QED
      BY <3>3 DEF q
  <2>3. d * (100 - r) = 100 * d - d * r
    BY SMT
  <2> QED
    BY <2>1, <2>2, <2>3
<1> DEFINE x == d * r
<1>2. x \in Nat /\ x <= 100 * d
  BY <1>1
<1> HIDE DEF x
<1>3. x \div 100 \in Nat /\ 100 * (x \div 100) <= x
  BY <1>2, Hundredths
<1>4. x \div 100 \in 0 .. d
  BY <1>2, <1>3
<1> QED
  BY <1>4 DEF x

\* A value is between two neighbours in the order.
Between(s, p, v) ==
  \E lower, upper \in 1 .. Len(s) :
    /\ Sorted(s)[lower] <= v /\ v <= Sorted(s)[upper]
    /\ 100 * (lower - 1) >= p * (Len(s) - 1) - 99
    /\ 100 * (upper - 1) <= p * (Len(s) - 1) + 99

\* A percentile is.
LEMMA PercentileBetween ==
  ASSUME NEW s \in Seq(Latency), s # <<>>, NEW p \in {99, 95, 50}
  PROVE  Percentile(s, p) \in Nat /\ Between(s, p, Percentile(s, p))
<1> DEFINE D == DOMAIN s
           n == Len(s)
           r == Sorted(s)
           index == p * (n - 1)
           lower == index \div 100 + 1
           upper == (index + 99) \div 100 + 1
<1>1. PICK o \in [D -> D] :
        /\ \A i, j \in D : o[i] = o[j] => i = j
        /\ r = [i \in D |-> s[o[i]]]
        /\ \A i, j \in D : i < j => r[i] <= r[j]
  BY SortedAscends
<1>2. D = 1 .. n /\ n \in Nat /\ n >= 1
  BY LatenciesNat
<1>3. \A i \in D : r[i] \in Nat
  BY <1>1, LatenciesNat
<1>4. Len(r) = n
  BY <1>1, <1>2
<1>5. Percentile(s, p) = r[lower] + ((r[upper] - r[lower]) * (index % 100)) \div 100
  BY <1>4 DEF Percentile
<1> HIDE DEF D, r, n
<1>6. index \in Nat /\ index <= 99 * (n - 1)
  <2>1. n - 1 \in Nat
    BY <1>2
  <2>2. CASE p = 99
    BY <2>1, <2>2
  <2>3. CASE p = 95
    BY <2>1, <2>3
  <2>4. CASE p = 50
    BY <2>1, <2>4
  <2> QED
    BY <2>2, <2>3, <2>4
<1> HIDE DEF index
<1>7. /\ index \div 100 \in Nat /\ index % 100 \in 0 .. 99
      /\ 100 * (index \div 100) >= index - 99 /\ 100 * (index \div 100) <= index
  BY <1>6, Hundredths
<1>8. /\ (index + 99) \div 100 \in Nat /\ 100 * ((index + 99) \div 100) <= index + 99
      /\ 100 * ((index + 99) \div 100) >= index
  <2>1. index + 99 \in Nat
    BY <1>6
  <2>2. /\ (index + 99) \div 100 \in Nat
        /\ 100 * ((index + 99) \div 100) >= (index + 99) - 99
        /\ 100 * ((index + 99) \div 100) <= index + 99
    BY <2>1, Hundredths
  <2> QED
    BY <1>6, <2>2
<1>9. /\ lower \in 1 .. n /\ upper \in 1 .. n /\ lower <= upper
      /\ 100 * (lower - 1) >= index - 99 /\ 100 * (upper - 1) <= index + 99
  BY <1>2, <1>6, <1>7, <1>8
<1> HIDE DEF lower, upper
<1>10. r[lower] \in Nat /\ r[upper] \in Nat /\ r[lower] <= r[upper]
  <2>1. CASE lower = upper
    BY <1>2, <1>3, <1>9, <2>1
  <2>2. CASE lower < upper
    BY <1>1, <1>2, <1>3, <1>9, <2>2
  <2> QED
    BY <1>9, <2>1, <2>2
<1> DEFINE d == r[upper] - r[lower]
<1>11. d \in Nat
  BY <1>10
<1>12. (d * (index % 100)) \div 100 \in 0 .. d
  BY <1>7, <1>11, PartOf
<1>13. Percentile(s, p) \in Nat /\ r[lower] <= Percentile(s, p) /\ Percentile(s, p) <= r[upper]
  BY <1>5, <1>10, <1>12
<1> QED
  BY <1>9, <1>13 DEF r, n, index, Between

\* A percentile has its rank among the latencies.
LEMMA PercentileRanked ==
  ASSUME NEW s \in Seq(Latency), s # <<>>, NEW p \in {99, 95, 50}
  PROVE  LET v == Percentile(s, p)
         IN  /\ 100 * (Cardinality(In(s, AtMost(v))) - 1) >= p * (Len(s) - 1) - 99
             /\ 100 * (Len(s) - Cardinality(In(s, AtLeast(v)))) <= p * (Len(s) - 1) + 99
<1>0. Percentile(s, p) \in Nat /\ Between(s, p, Percentile(s, p))
  BY PercentileBetween
<1> DEFINE v == Percentile(s, p)
           n == Len(s)
           a == Cardinality(In(s, AtMost(v)))
           b == Cardinality(In(s, AtLeast(v)))
           index == p * (n - 1)
<1>1. v \in Nat /\ n \in Nat
  BY <1>0
<1>2. PICK lower \in 1 .. n, upper \in 1 .. n :
        /\ Sorted(s)[lower] <= v /\ v <= Sorted(s)[upper]
        /\ 100 * (lower - 1) >= index - 99
        /\ 100 * (upper - 1) <= index + 99
  BY <1>0 DEF Between
<1> HIDE DEF v
<1>3. a >= lower
  BY <1>1, <1>2, Ranks
<1>4. b >= n - upper + 1
  BY <1>1, <1>2, Ranks
<1>5. a \in Nat /\ b \in Nat
  <2>1. In(s, AtMost(v)) \in SUBSET DOMAIN s /\ In(s, AtLeast(v)) \in SUBSET DOMAIN s
    BY DEF In
  <2>2. IsFiniteSet(In(s, AtMost(v))) /\ IsFiniteSet(In(s, AtLeast(v)))
    BY <2>1, LatenciesNat, FS_Subset
  <2> QED
    BY <2>2, FS_CardinalityType
<1>6. index \in Int
  BY <1>1
<1> HIDE DEF a, b, n, index
<1>7. 100 * (a - 1) >= index - 99 /\ 100 * (n - b) <= index + 99
  BY <1>1, <1>2, <1>3, <1>4, <1>5, <1>6
<1> QED
  BY <1>7 DEF a, b, n, index, v

\* The whole part of a quotient.
LEMMA QuotientBetween ==
  ASSUME NEW x \in Nat, NEW n \in Nat \ {0}
  PROVE  n * (x \div n) <= x /\ x < n * ((x \div n) + 1)
<1> DEFINE q == x \div n
           r == x % n
<1>1. q \in Int /\ r \in Nat /\ r < n /\ x = n * q + r
  BY SMT
<1> HIDE DEF q, r
<1>2. n * (q + 1) = n * q + n /\ n * q \in Int
  BY <1>1, SMT
<1>3. n * q <= x /\ x < n * (q + 1)
  BY <1>1, <1>2
<1> QED
  BY <1>3 DEF q

\* The average is cut to a whole number, of a sum that fits.
LEMMA AverageSound ==
  ASSUME NEW s \in Seq(Latency), s # <<>>, Sum(s, DOMAIN s) < UInt
  PROVE  LET sum == Sum(s, DOMAIN s)
         IN  Len(s) * Average(s) <= sum /\ sum < Len(s) * (Average(s) + 1)
<1> DEFINE sum == Sum(s, DOMAIN s)
           n == Len(s)
<1>1. sum \in Nat
  <2>1. \A i \in DOMAIN s : s[i] \in Nat
    BY LatenciesNat
  <2> QED
    BY <2>1, LatenciesNat, SumElement
<1>2. n \in Nat \ {0}
  OBVIOUS
<1>3. UInt # 0
  BY <1>1
<1>4. Average(s) = (sum % UInt) \div n
  BY <1>3, AddedUpUInt DEF Average
<1> HIDE DEF sum, n
<1>5. sum % UInt = sum
  BY <1>1, BoundsAssumption, SMT DEF sum
<1>6. Average(s) = sum \div n
  BY <1>4, <1>5
<1>7. n * Average(s) <= sum /\ sum < n * (Average(s) + 1)
  BY <1>1, <1>2, <1>6, QuotientBetween
<1> QED
  BY <1>7 DEF sum, n

-----------------------------------------------------------------------------
(***************************************************************************)
(* The latencies that have been appended are those of the threads that are *)
(* done, each as often as it was measured, in whatever order.              *)
(***************************************************************************)
Finished == {"loadThroughput", "storeThroughput", "loadUsedtime", "storeUsedtime", "counts",
             "latencies", "done"}

Appended(w) ==
  [t \in Thread |-> IF thread[t].at = "done" THEN Weight(thread[t].latencies, w) ELSE 0]

LatenciesInv ==
  /\ main.at \in {"options", "warmup", "warming", "run"} => total.latencies = <<>>
  /\ main.at = "running" =>
       /\ \A w \in Weights : Weight(total.latencies, w) = SumFunction(Appended(w))
       /\ \A t \in Thread : thread[t].at \in Finished => thread[t].latencies # <<>>

\* What has been appended is a number of each thread.
LEMMA AppendedNat ==
  ASSUME Types, NEW w \in Weights
  PROVE  Appended(w) \in [Thread -> Nat]
<1>1. \A t \in Thread : Weight(thread[t].latencies, w) \in Nat
  BY WeightNat DEF Types, Threads
<1> QED
  BY <1>1 DEF Appended

\* A step of a thread that appends nothing.
LEMMA LatenciesKept ==
  ASSUME LatenciesInv, NEW t \in Thread, \A u \in Thread \ {t} : thread'[u] = thread[u],
         thread[t].at # "done", thread'[t].at # "done", main' = main,
         total'.latencies = total.latencies,
         thread'[t].at \in Finished =>
           thread'[t].latencies # <<>> \/ main.at = "warming"
             \/ (thread[t].at \in Finished /\ thread'[t].latencies = thread[t].latencies)
  PROVE  LatenciesInv'
<1>1. \A w : Appended(w)' = Appended(w)
  BY DEF Appended
<1> QED
  BY <1>1 DEF LatenciesInv

\* Every step keeps the appended latencies those of the threads that are done.
LEMMA LatenciesStep == TypeInv /\ Places /\ LatenciesInv /\ [Next]_vars => LatenciesInv'
<1> SUFFICES ASSUME TypeInv, Places, LatenciesInv, [Next]_vars PROVE LatenciesInv'
  OBVIOUS
<1>0. Types /\ \A t \in Thread : thread[t] \in Threads
  BY DEF TypeInv, Types
<1>1. CASE ReadOption
  BY <1>1 DEF ReadOption, LatenciesInv, Appended
<1>2. CASE Help \/ Begin \/ End \/ StartWarmup \/ EndWarmup
  <2>1. /\ main.at \in {"options", "run", "warmup"} /\ total' = total
        /\ main'.at \in {"warmup", "warming", "run", "end"}
    BY <1>0, <1>2 DEF Help, Begin, End, StartWarmup, EndWarmup, Rest, Types
  <2> QED
    BY <2>1 DEF LatenciesInv
<1>3. CASE FinishWarmup
  <2>1. main.at = "warming" /\ main'.at = "warmup" /\ total'.latencies = total.latencies
    BY <1>0, <1>3 DEF FinishWarmup, Types
  <2> QED
    BY <2>1 DEF LatenciesInv
<1>4. CASE FinishRun
  <2>1. main'.at = "run" /\ total'.latencies = <<>>
    BY <1>0, <1>4 DEF FinishRun, Reset, Nothing, Types
  <2> QED
    BY <2>1 DEF LatenciesInv
<1>5. CASE StartRun
  <2>1. main.at = "run" /\ main'.at = "running" /\ total' = total
    BY <1>0, <1>5 DEF StartRun, Types
  <2>2. \A t \in Thread : thread'[t].at = "begin"
    BY <1>5 DEF StartRun, Started, Off
  <2>3. ASSUME NEW w \in Weights
        PROVE  Weight(total'.latencies, w) = SumFunction(Appended(w)')
    <3>1. Appended(w)' = [t \in Thread |-> 0]
      BY <2>2 DEF Appended
    <3>2. total'.latencies = <<>>
      BY <2>1 DEF LatenciesInv
    <3> QED
      BY <3>1, <3>2, SumOfZeros, WeightOfNone, BoundsAssumption
  <2> QED
    BY <2>1, <2>2, <2>3 DEF LatenciesInv, Finished
<1>6. ASSUME NEW t \in Thread, BeginQueries(t)
      PROVE  LatenciesInv'
  <2>1. /\ \A u \in Thread \ {t} : thread'[u] = thread[u]
        /\ thread[t].at = "begin" /\ thread'[t].at = "run"
        /\ main' = main /\ total' = total
    BY <1>0, <1>6 DEF BeginQueries, At, Become, Rest, Types, Threads
  <2> QED
    BY <2>1, LatenciesKept DEF Finished
<1>7. ASSUME NEW t \in Thread, Queries(t)
      PROVE  LatenciesInv'
  <2>1. PICK hits \in 0 .. Records(t),
             latencies \in IF Warming THEN {<<>>} ELSE [1 .. Records(t) -> Latency] :
          Become(t, [thread[t] EXCEPT !.at = IF Warming THEN "counts" ELSE "loadThroughput",
                                      !.hits = hits, !.latencies = latencies])
    BY <1>7 DEF Queries
  <2>2. /\ \A u \in Thread \ {t} : thread'[u] = thread[u]
        /\ thread[t].at = "run" /\ thread'[t].at # "done"
        /\ thread'[t].latencies = latencies
        /\ main' = main /\ total' = total
    BY <1>0, <1>7, <2>1 DEF Queries, At, Become, Rest, Types, Threads
  <2>3. thread'[t].latencies # <<>> \/ main.at = "warming"
    <3>1. CASE Warming
      BY <3>1 DEF Warming
    <3>2. CASE ~Warming
      <4>1. Records(t) \in Nat \ {0} /\ latencies \in [1 .. Records(t) -> Latency]
        BY <2>1, <3>2, RecordsNat
      <4>2. 1 \in DOMAIN latencies /\ DOMAIN <<>> = {}
        BY <4>1
      <4> QED
        BY <2>2, <4>2
    <3> QED
      BY <3>1, <3>2
  <2>4. /\ \A u \in Thread \ {t} : thread'[u] = thread[u]
        /\ thread[t].at # "done" /\ thread'[t].at # "done"
        /\ main' = main /\ total'.latencies = total.latencies
    BY <2>2
  <2> QED
    BY <2>3, <2>4, LatenciesKept
<1>8. ASSUME NEW t \in Thread, AddThroughput(t) \/ AddUsedtime(t)
      PROVE  LatenciesInv'
  <2>1. /\ \A u \in Thread \ {t} : thread'[u] = thread[u]
        /\ thread[t].at \in {"loadThroughput", "storeThroughput", "loadUsedtime", "storeUsedtime"}
        /\ thread'[t].at \in {"storeThroughput", "loadUsedtime", "storeUsedtime", "counts"}
        /\ thread'[t].latencies = thread[t].latencies
        /\ main' = main /\ total'.latencies = total.latencies
    BY <1>0, <1>8, AddThread
  <2> QED
    BY <2>1, LatenciesKept DEF Finished
<1>9. ASSUME NEW t \in Thread, AddCounts(t)
      PROVE  LatenciesInv'
  <2>1. /\ \A u \in Thread \ {t} : thread'[u] = thread[u]
        /\ thread[t].at = "counts" /\ thread'[t].at # "done"
        /\ thread'[t].latencies = thread[t].latencies
        /\ main' = main /\ total'.latencies = total.latencies
    BY <1>0, <1>9 DEF AddCounts, At, Become, Types, Threads
  <2> QED
    BY <2>1, LatenciesKept DEF Finished
<1>10. ASSUME NEW t \in Thread, AddLatencies(t)
       PROVE  LatenciesInv'
  <2>1. /\ \A u \in Thread \ {t} : thread'[u] = thread[u]
        /\ thread[t].at = "latencies" /\ thread'[t].at = "done"
        /\ thread'[t].latencies = thread[t].latencies
        /\ main' = main /\ main.at \in {"warming", "running"}
        /\ total'.latencies = total.latencies \o thread[t].latencies
    BY <1>0, <1>10 DEF AddLatencies, At, Become, Types, Threads
  <2>2. main.at = "running"
    BY <2>1 DEF Places, Warming
  <2>3. \A u \in Thread : thread'[u].at \in Finished => thread'[u].latencies # <<>>
    BY <2>1, <2>2 DEF LatenciesInv, Finished
  <2>4. ASSUME NEW w \in Weights
        PROVE  Weight(total'.latencies, w) = SumFunction(Appended(w)')
    <3> DEFINE f == Appended(w)
               g == [u \in Thread |-> IF thread'[u].at = "done"
                                      THEN Weight(thread'[u].latencies, w) ELSE 0]
    <3>1. total.latencies \in Seq(Latency) /\ thread[t].latencies \in Seq(Latency)
      BY <1>0 DEF Types, Threads
    <3>2. Weight(total'.latencies, w) = Weight(total.latencies, w) + Weight(thread[t].latencies, w)
      BY <2>1, <3>1, WeightOfBoth
    <3>3. Weight(total.latencies, w) = SumFunction(f)
      BY <2>2 DEF LatenciesInv
    <3>4. f \in [Thread -> Nat] /\ f[t] = 0
      BY <1>0, <2>1, AppendedNat DEF Appended
    <3>5. \A u \in Thread \ {t} : f[u] = g[u]
      BY <2>1 DEF Appended
    <3>6. g[t] = Weight(thread[t].latencies, w) /\ g[t] \in Nat
      BY <2>1, <3>1, WeightNat
    <3>7. g \in [Thread -> Nat]
      <4>1. \A u \in Thread : g[u] \in Nat
        BY <3>4, <3>5, <3>6
      <4> QED
        BY <4>1
    <3>8. Appended(w)' = g
      BY DEF Appended
    <3> HIDE DEF f, g
    <3>9. SumFunction(g) = SumFunction(f) + g[t] - f[t]
      BY <3>4, <3>5, <3>7, SumOfChanged, BoundsAssumption
    <3>10. Weight(total.latencies, w) \in Nat
      BY <3>1, WeightNat
    <3>11. Weight(total'.latencies, w) = SumFunction(g)
      BY <3>2, <3>3, <3>4, <3>6, <3>9, <3>10
    <3> QED
      BY <3>8, <3>11
  <2> QED
    BY <2>1, <2>2, <2>3, <2>4 DEF LatenciesInv
<1>11. ASSUME NEW t \in Thread, LoadStart(t) \/ StoreStart(t)
       PROVE  LatenciesInv'
  <2>1. main.at = "warming" /\ main' = main /\ total' = total
    <3>1. /\ thread[t].at \in {"loadStart", "storeStart"} /\ main.at \in {"warming", "running"}
          /\ main' = main /\ total' = total
      BY <1>11 DEF LoadStart, StoreStart, At, Rest
    <3> QED
      BY <3>1 DEF Places
  <2> QED
    BY <2>1 DEF LatenciesInv
<1>12. ASSUME NEW t \in Thread, Terminate(t)
       PROVE  LatenciesInv'
  BY <1>0, <1>12 DEF Terminate, LatenciesInv, Types
<1>13. CASE UNCHANGED vars
  BY <1>13 DEF vars, LatenciesInv, Appended
<1> QED
  BY <1>1, <1>2, <1>3, <1>4, <1>5, <1>6, <1>7, <1>8, <1>9, <1>10, <1>11, <1>12, <1>13 DEF Next

\* They always are.
LEMMA LatenciesInvariant == Spec => []LatenciesInv
<1>1. Init => LatenciesInv
  BY DEF Init, LatenciesInv, Nothing
<1> QED
  BY <1>1, LatenciesStep, TypeInvInvariant, PlacesInvariant, PTL DEF Spec

\* No summand is greater than the sum.
LEMMA NoSummandGreater ==
  ASSUME NEW D, IsFiniteSet(D), NEW f, \A x \in D : f[x] \in Nat, NEW y \in D
  PROVE  f[y] <= Sum(f, D)
<1>1. D \in SUBSET D
  OBVIOUS
<1>2. /\ Sum(f, D) = f[y] + Sum(f, D \ {y})
      /\ Sum(f, D) \in Nat /\ Sum(f, D \ {y}) \in Nat /\ f[y] \in Nat
  BY <1>1, SumTake
<1> QED
  BY <1>2

\* How many latencies of the round's threads are in a set.
NumberOf(T) == SumFunction([t \in Thread |-> Cardinality(In(thread[t].latencies, T))])

\* When all threads are done, the appended latencies are theirs.
LEMMA AllAppended ==
  ASSUME Types, LatenciesInv, main.at = "running", \A t \in Thread : thread[t].at = "done"
  PROVE  /\ total.latencies # <<>>
         /\ \A T : Cardinality(In(total.latencies, T)) = NumberOf(T)
         /\ Sum(total.latencies, DOMAIN total.latencies)
              = SumFunction([t \in Thread |-> Sum(thread[t].latencies, DOMAIN thread[t].latencies)])
<1>0. /\ total.latencies \in Seq(Latency)
      /\ \A t \in Thread : thread[t].latencies \in Seq(Latency)
  BY DEF Types, Threads
<1>1. ASSUME NEW w \in Weights
      PROVE  Weight(total.latencies, w) = SumFunction([t \in Thread |-> Weight(thread[t].latencies, w)])
  <2>1. Appended(w) = [t \in Thread |-> Weight(thread[t].latencies, w)]
    BY DEF Appended
  <2> QED
    BY <1>1, <2>1 DEF LatenciesInv
<1>2. ASSUME NEW T
      PROVE  Cardinality(In(total.latencies, T)) = NumberOf(T)
  <2>1. /\ Cardinality(In(total.latencies, T)) = Weight(total.latencies, Member(T))
        /\ Member(T) \in Weights
    BY <1>0, CountIsWeight
  <2>2. \A t \in Thread :
          Cardinality(In(thread[t].latencies, T)) = Weight(thread[t].latencies, Member(T))
    BY <1>0, CountIsWeight
  <2>3. [t \in Thread |-> Cardinality(In(thread[t].latencies, T))]
          = [t \in Thread |-> Weight(thread[t].latencies, Member(T))]
    BY <2>2
  <2> QED
    BY <1>1, <2>1, <2>3 DEF NumberOf
<1>3. Sum(total.latencies, DOMAIN total.latencies)
        = SumFunction([t \in Thread |-> Sum(thread[t].latencies, DOMAIN thread[t].latencies)])
  <2>1. /\ Sum(total.latencies, DOMAIN total.latencies) = Weight(total.latencies, Itself)
        /\ Itself \in Weights
    BY <1>0, SumIsWeight
  <2>2. \A t \in Thread :
          Sum(thread[t].latencies, DOMAIN thread[t].latencies) = Weight(thread[t].latencies, Itself)
    BY <1>0, SumIsWeight
  <2>3. [t \in Thread |-> Sum(thread[t].latencies, DOMAIN thread[t].latencies)]
          = [t \in Thread |-> Weight(thread[t].latencies, Itself)]
    BY <2>2
  <2> QED
    BY <1>1, <2>1, <2>3
<1>4. total.latencies # <<>>
  <2> SUFFICES ASSUME total.latencies = <<>> PROVE FALSE
    OBVIOUS
  <2> DEFINE f == [t \in Thread |-> Cardinality(In(thread[t].latencies, Latency))]
  <2>1. PICK t \in Thread : TRUE
    BY BoundsAssumption
  <2>2. \A u \in Thread : f[u] \in Nat
    <3>1. ASSUME NEW u \in Thread PROVE Cardinality(In(thread[u].latencies, Latency)) \in Nat
      <4>1. In(thread[u].latencies, Latency) \in SUBSET DOMAIN thread[u].latencies
        BY DEF In
      <4>2. IsFiniteSet(DOMAIN thread[u].latencies)
        BY <1>0, LatenciesNat
      <4> QED
        BY <4>1, <4>2, FS_Subset, FS_CardinalityType
    <3> QED
      BY <3>1
  <2>3. f[t] # 0
    <3>1. thread[t].latencies # <<>>
      BY DEF LatenciesInv, Finished
    <3> DEFINE s == thread[t].latencies
    <3>2. In(s, Latency) = DOMAIN s /\ Cardinality(DOMAIN s) = Len(s) /\ Len(s) # 0
      <4>1. s \in Seq(Latency) /\ s # <<>>
        BY <1>0, <3>1
      <4> HIDE DEF s
      <4>2. Len(s) # 0
        BY <4>1
      <4> QED
        BY <4>1, <4>2, LatenciesNat DEF In
    <3> QED
      BY <3>2
  <2>4. Cardinality(In(<<>>, Latency)) = 0
    <3>1. In(<<>>, Latency) = {}
      <4>1. DOMAIN <<>> = {}
        OBVIOUS
      <4> QED
        BY <4>1 DEF In
    <3> QED
      BY <3>1, FS_EmptySet
  <2>5. SumFunction(f) = 0
    BY <1>2, <2>4 DEF NumberOf
  <2>6. SumFunction(f) = Sum(f, Thread)
    <3>1. DOMAIN f = Thread
      OBVIOUS
    <3> HIDE DEF f
    <3> QED
      BY <3>1, FunctionSum
  <2> HIDE DEF f
  <2>7. f[t] <= Sum(f, Thread)
    BY <2>1, <2>2, NoSummandGreater, BoundsAssumption
  <2> QED
    BY <2>2, <2>3, <2>5, <2>6, <2>7
<1> QED
  BY <1>2, <1>3, <1>4

\* The counts and the sum that StatisticsSound speaks of.
CountAll      == Count(LAMBDA l : TRUE)
CountBelow(v) == Count(LAMBDA l : l <= v)
CountAbove(v) == Count(LAMBDA l : l >= v)
SumOfAll      == SumFunction([t \in Thread |-> SumFunction(thread[t].latencies)])

\* They count and add up the latencies of the threads.
LEMMA CountsOfLatencies ==
  ASSUME Types
  PROVE  /\ CountAll = NumberOf(Latency)
         /\ \A v : CountBelow(v) = NumberOf(AtMost(v))
         /\ \A v : CountAbove(v) = NumberOf(AtLeast(v))
         /\ SumOfAll
              = SumFunction([t \in Thread |-> Sum(thread[t].latencies, DOMAIN thread[t].latencies)])
<1>0. \A t \in Thread : /\ thread[t].latencies \in Seq(Latency)
                        /\ \A i \in DOMAIN thread[t].latencies : thread[t].latencies[i] \in Latency
  BY DEF Types, Threads
<1>1. CountAll = NumberOf(Latency)
  <2>1. \A t \in Thread :
          {i \in DOMAIN thread[t].latencies : TRUE} = In(thread[t].latencies, Latency)
    BY <1>0 DEF In
  <2> QED
    BY <2>1 DEF CountAll, CountBelow, CountAbove, Count, NumberOf
<1>2. ASSUME NEW v
      PROVE  CountBelow(v) = NumberOf(AtMost(v))
  <2>1. \A t \in Thread :
          {i \in DOMAIN thread[t].latencies : thread[t].latencies[i] <= v}
            = In(thread[t].latencies, AtMost(v))
    BY <1>0 DEF In, AtMost
  <2> QED
    BY <2>1 DEF CountAll, CountBelow, CountAbove, Count, NumberOf
<1>3. ASSUME NEW v
      PROVE  CountAbove(v) = NumberOf(AtLeast(v))
  <2>1. \A t \in Thread :
          {i \in DOMAIN thread[t].latencies : thread[t].latencies[i] >= v}
            = In(thread[t].latencies, AtLeast(v))
    BY <1>0 DEF In, AtLeast
  <2> QED
    BY <2>1 DEF CountAll, CountBelow, CountAbove, Count, NumberOf
<1>4. \A t \in Thread : SumFunction(thread[t].latencies)
                          = Sum(thread[t].latencies, DOMAIN thread[t].latencies)
  <2>1. ASSUME NEW t \in Thread
        PROVE  SumFunction(thread[t].latencies)
                 = Sum(thread[t].latencies, DOMAIN thread[t].latencies)
    BY FunctionSum
  <2> QED
    BY <2>1
<1> QED
  BY <1>1, <1>2, <1>3, <1>4 DEF SumOfAll

\* StatisticsSound in these words.
Statistics ==
  /\ \A p \in {99, 95, 50} :
       /\ 100 * (CountBelow(log.percentile[p]) - 1) >= p * (CountAll - 1) - 99
       /\ 100 * (CountAll - CountAbove(log.percentile[p])) <= p * (CountAll - 1) + 99
  /\ SumOfAll < UInt =>
       CountAll * log.average <= SumOfAll /\ SumOfAll < CountAll * (log.average + 1)

\* It says the same.
LEMMA StatisticsRead == StatisticsSound <=> (Told => Statistics)
  BY Zenon DEF StatisticsSound, Statistics, CountAll, CountBelow, CountAbove, SumOfAll

\* They speak of what is told and of the threads.
LEMMA StatisticsKept ==
  ASSUME log' = log, thread' = thread
  PROVE  Statistics' = Statistics
<1>1. CountAll' = CountAll /\ SumOfAll' = SumOfAll
  BY DEF CountAll, SumOfAll, Count
<1>2. ASSUME NEW v
      PROVE  CountBelow(v)' = CountBelow(v) /\ CountAbove(v)' = CountAbove(v)
  BY DEF CountBelow, CountAbove, Count
<1> QED
  BY <1>1, <1>2 DEF Statistics

\* A percentile has its rank among all the latencies of the round, in whatever
\* order the threads have come to append them; the average is the latencies' as
\* long as their sum is an unsigned int (percentile.h:6-40, main.cpp:205-208).
THEOREM StatisticsTold == Spec => []StatisticsSound
<1>1. Init => StatisticsSound
  BY StatisticsRead DEF Init, Told
<1>2. ASSUME TypeInv, LatenciesInv, Told => Statistics, [Next]_vars
      PROVE  (Told => Statistics)'
  <2>0. Types /\ Rounds
    BY <1>2 DEF TypeInv
  <2>1. CASE FinishRun
    <3> DEFINE s == total.latencies
               n == NumberOf(Latency)
               sum == SumOfAll
    <3>1. /\ main.at = "running" /\ \A t \in Thread : thread[t].at = "done"
          /\ thread' = thread
          /\ log'.average = Average(s)
          /\ \A p \in {99, 95, 50} : log'.percentile[p] = Percentile(s, p)
      BY <2>1 DEF FinishRun, Joined
    <3>2. /\ s \in Seq(Latency) /\ s # <<>>
          /\ \A T : Cardinality(In(s, T)) = NumberOf(T)
          /\ Sum(s, DOMAIN s) = sum
      BY <1>2, <2>0, <3>1, AllAppended, CountsOfLatencies DEF Types
    <3>3. Len(s) = n
      <4>1. In(s, Latency) = DOMAIN s /\ Cardinality(DOMAIN s) = Len(s)
        BY <3>2, LatenciesNat DEF In
      <4> QED
        BY <3>2, <4>1
    <3> HIDE DEF s, n, sum
    <3>4. ASSUME NEW p \in {99, 95, 50}, NEW v, v = Percentile(s, p)
          PROVE  /\ 100 * (NumberOf(AtMost(v)) - 1) >= p * (n - 1) - 99
                 /\ 100 * (n - NumberOf(AtLeast(v))) <= p * (n - 1) + 99
      <4>1. /\ 100 * (Cardinality(In(s, AtMost(v))) - 1) >= p * (Len(s) - 1) - 99
            /\ 100 * (Len(s) - Cardinality(In(s, AtLeast(v)))) <= p * (Len(s) - 1) + 99
        BY <3>2, <3>4, PercentileRanked
      <4> QED
        BY <3>2, <3>3, <4>1
    <3>5. ASSUME sum < UInt
          PROVE  n * Average(s) <= sum /\ sum < n * (Average(s) + 1)
      <4>1. Len(s) * Average(s) <= Sum(s, DOMAIN s)
            /\ Sum(s, DOMAIN s) < Len(s) * (Average(s) + 1)
        BY <3>2, <3>5, AverageSound
      <4> QED
        BY <3>2, <3>3, <4>1
    <3>6. /\ CountAll = n
          /\ \A v : CountBelow(v) = NumberOf(AtMost(v))
          /\ \A v : CountAbove(v) = NumberOf(AtLeast(v))
      BY <2>0, CountsOfLatencies DEF n
    <3>7. ASSUME NEW p \in {99, 95, 50}, NEW v, v = log'.percentile[p]
          PROVE  /\ 100 * (CountBelow(v)' - 1) >= p * (n - 1) - 99
                 /\ 100 * (n - CountAbove(v)') <= p * (n - 1) + 99
      <4>1. v = Percentile(s, p)
        BY <3>1, <3>7
      <4>2. CountBelow(v)' = CountBelow(v) /\ CountAbove(v)' = CountAbove(v)
        BY <3>1 DEF CountBelow, CountAbove, Count
      <4> QED
        BY <3>4, <3>6, <4>1, <4>2
    <3>8. CountAll' = n /\ SumOfAll' = sum
      <4>1. CountAll' = CountAll /\ SumOfAll' = SumOfAll
        BY <3>1 DEF CountAll, SumOfAll, Count
      <4> QED
        BY <3>6, <4>1 DEF sum
    <3>9. sum < UInt => n * log'.average <= sum /\ sum < n * (log'.average + 1)
      BY <3>1, <3>5
    <3> QED
      BY <3>7, <3>8, <3>9 DEF Statistics
  <2>2. CASE End
    <3>1. /\ main.at = "run" /\ main'.round = main.round /\ thread' = thread /\ log' = log
      BY <2>0, <2>2 DEF End, Rest, Types
    <3>2. Told' => Told
      BY <3>1 DEF Told
    <3> QED
      BY <1>2, <3>1, <3>2, StatisticsKept
  <2>3. CASE UNCHANGED vars
    <3>1. main' = main /\ thread' = thread /\ log' = log
      BY <2>3 DEF vars
    <3>2. Told' => Told
      BY <3>1 DEF Told
    <3> QED
      BY <1>2, <3>1, <3>2, StatisticsKept
  <2>4. CASE ReadOption \/ Help \/ Begin
    <3>1. main.at = "options" /\ main'.round = main.round
      BY <2>0, <2>4 DEF ReadOption, Help, Begin, Types
    <3> QED
      BY <2>0, <3>1 DEF Rounds, Told
  <2>5. CASE StartWarmup \/ FinishWarmup \/ EndWarmup \/ StartRun
    <3>1. main'.at \in {"warmup", "warming", "running"} \/ main'.round = 0
      BY <2>0, <2>5 DEF StartWarmup, FinishWarmup, EndWarmup, StartRun, Types
    <3> QED
      BY <3>1 DEF Told
  <2>6. ASSUME NEW t \in Thread,
               \/ BeginQueries(t) \/ Queries(t) \/ AddThroughput(t) \/ AddUsedtime(t)
               \/ AddCounts(t) \/ AddLatencies(t) \/ LoadStart(t) \/ StoreStart(t)
        PROVE  (Told => Statistics)'
    <3>1. main' = main /\ main.at \in {"warming", "running"}
      BY <2>6 DEF BeginQueries, Queries, AddThroughput, AddUsedtime, AddCounts, AddLatencies,
                  LoadStart, StoreStart, Load, Store, At
    <3> QED
      BY <3>1 DEF Told
  <2>7. ASSUME NEW t \in Thread, Terminate(t)
        PROVE  (Told => Statistics)'
    <3>1. main'.at = "terminated"
      BY <2>0, <2>7 DEF Terminate, Types
    <3> QED
      BY <3>1 DEF Told
  <2> QED
    BY <1>2, <2>1, <2>2, <2>3, <2>4, <2>5, <2>6, <2>7 DEF Next
<1>3. TypeInv /\ LatenciesInv /\ (Told => Statistics) /\ [Next]_vars => (Told => Statistics)'
  BY <1>2
<1>4. TypeInv /\ LatenciesInv /\ StatisticsSound /\ [Next]_vars => StatisticsSound'
  BY <1>3, StatisticsRead, PTL
<1> QED
  BY <1>1, <1>4, TypeInvInvariant, LatenciesInvariant, PTL DEF Spec
=============================================================================
