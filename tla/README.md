# Cachelib sessions, pools and TMDB: a verification development

The repository runs a cache server on top of CacheLib. Programs on the same
machine attach to it over shared memory, a scheduler moves memory between their
pools over a Unix socket, and a benchmark uses the cache beside one of several
databases, among them TMDB, a hash-table store that is part of the repository.
This directory holds TLA+ modules for these parts, TLC runs on small instances
of them, and proofs that TLAPS checks. Paths are relative to the repository;
in line references `server.cpp` and `clientAPI.cpp` are in
`src/clientserver/clientserver/`, `cachelibHeader.cpp` in
`src/clientserver/cachelibheader/`.

## The system

| part | state | operations | talks to |
|---|---|---|---|
| Client library (`clientAPI.cpp`) | mapping of the area, three semaphores, pool prefix, `getValue` | `addpool`, `prepare_shm`, `setKV`, `getKV`, `delKV`, destructor | listener (socket), session thread (shared memory) |
| Session thread (`sharedMemCtl`, `server.cpp:89-225`) | names, mapping, semaphores, loop | serve SET, GET, DEL, CLOSE; give everything back | client, cache, pool records |
| Listener (`listen_addpool`, `server.cpp:227-328`) | pool records, `name2CHS` | `A:<pool>`, `G`, `S:<configuration>`, `E` | clients, scheduler, cache |
| Cache (`cachelibHeader.cpp`) | CacheLib's items and pools | `addpool_`, `set_`, `get_`, `del_`, sizes, `resizePool` | CacheLib |
| Scheduler (`src/schedule`) | sizes and measurements | `get_pool_stats`, `set_cache_size`, `config_management`, processes | listener, benchmarks |
| TMDB (`src/tmdb/src`) | index file, data file, `TDB` handles | open, store (three modes), fetch, delete, close, iterate | the files, `flock` |
| Backends (`src/backend/src/backend`, `cache`) | a store and the cache beside it, `g_next_insert_key` | insert, read, clean up, `enable_cache` | client library, a database |
| Benchmark (`src/backend/src/main.cpp`, `benchmarks`) | thread-local counters, distributions | prepare, warm-up, run | backends |

How they interact:

- A program calls `addpool`; the listener counts a session in, starts its
  thread, and answers with a name. Client and thread meet in the file system of
  shared memory: the thread creates four objects under that name, the client
  polls for each.
- From then on the two share one message area and pass the turn with three
  semaphores: `semaphore_Server` (the area is free), `semaphore` (there is a
  request), `semaphore_GetBack` (there is an answer). `setKV` and `delKV`
  return when the request is posted, `getKV` waits.
- All session threads share the cache, the listener changes its pools.
- Handles of TMDB share two files; each call takes `flock` on both.

What is hard here: spinning and blocking waits on both sides; a request that
is executed after its call returned; clients killed anywhere; a server that is
restarted while the names of its objects stay; a count that is read outside its
lock; sizes in rounded units, changed one pool at a time; several writes per
store, any of which may be the last; locks whose conversion is not atomic.

What makes each part correct:

- *Sessions*: one party at a time in the area; each request executed once, in
  order, with its own arguments; an answer belongs to its key; calls return.
- *Registration*: sessions never share a name or an object; counts are exact;
  a client reaches the thread started for it; nothing is left behind.
- *Pools*: no memory is reserved twice; a configuration that fits is in force,
  one that does not falls short of memory only; what is read can be sent back.
- *TMDB*: what a bucket leads to is whole at every moment; a call takes effect
  at one moment; a replaced value is there, a deleted key is not.
- *Backends*: cache and store agree on what they hold; a key is inserted once.
- *Benchmark*: what is told of a round is of that round, of all its threads.

## Modules

| module | stands for |
|---|---|
| `CacheCalls` | the calls of the client library, values tagged with their key |
| `CacheService` | abstract: what a session promises |
| `ShmSession` | the session protocol, both sides, with the cache |
| `ShmSession_proofs` | theorems about it |
| `PoolRegistry` | registration, names, objects, restart |
| `PoolRegistry_proofs` | theorems about it |
| `PoolResize` | pools, sizes, configurations, the scheduler's requests |
| `PoolResize_proofs` | theorems about it |
| `Sums` | sums over finite sets and the facts about them, for the proofs |
| `TmdbCalls` | the calls of a TMDB handle |
| `TmdbMap` | abstract: the map that inserts and fetches see |
| `Tmdb` | the store, word by word, with its locks and kills |
| `Tmdb_proofs`, `Tmdb_index` | theorems about it: locks and data file, index and map |
| `CacheAside` | backends and benchmark threads, composed with `CacheService` |
| `CacheAside_proofs` | theorems about it: keys and records, and the cache |
| `Benchmark` | the benchmark program: options, rounds, shared totals, statistics |
| `Benchmark_proofs` | theorems about it |
| `MCShmSession`, `MCPoolRegistry`, `MCPoolResize`, `MCTmdb`, `MCCacheAside`, `MCBenchmark` | instances for TLC |

`PROJECT.json` maps every definition to the lines it stands for.

### ShmSession

`client[s]` and `thread[s]` are program counters; `message`, the three
semaphores, `call` and `cache` are what the code shares. One step is one
semaphore operation or one access to the area or the cache. Client:
`Invoke`, `Acquire` (wait for `semaphore_Server`), `Fill`, `PostRequest`, and
for `getKV` `Answered`, `Copy`, `Release`. Thread: `Take`, one of `ServeSet`,
`ServeGet`, `ServeDel`, `ServeClose`, the post that follows it, `Cleanup`.
`Crash` kills a client; semaphores keep their values. `Evict`, and the failure
of `allocate` inside `ServeSet`, are CacheLib's.

A value carries the key it was stored under, so that an answer of the wrong key
shows. A spinning `sem_trywait` and a blocking `sem_wait` are the same step: both
go on with one unit of the semaphore. Keys are what the server sees, with their
pool prefix. The missing `break` after SIG_DEL is in the model
(`PostServerDel` goes to `postServerClose`).

`CacheService` has none of the semaphores: `Begin`, `HandOver`, `Execute`,
`Return`, `Drop`. `ShmSession` implements it under a mapping defined in
`ShmSession` (`Stages`, `Callings`, `Inboxes`, `Answers`): a request counts as
handed over from its post to its execution.

### PoolRegistry

`listener` is the request it works on, `poolRecord` the two counts of a pool,
`thread` and `client` program counters with the handles each side holds,
`named` maps names to objects, `sem` and `area` are the objects. An object is
known by the session that created it. `CheckRecord` and `AddSession` are two
steps because the count is looked at before `slockForRecord` is taken
(`server.cpp:276-289`). `Stop` is E or a kill: names and objects stay.
Of the calls only setKV and the destructor are there, since `ShmSession` has the
others. Socket errors are left out; so is the case of a client that is killed
(its session would stay for ever, as in `ShmSession`).

### PoolResize

Memory is counted in grains, `Unit` of them one SIZE_CONV. `AddPool`,
`ReadStats` and the two ways of sending a configuration are requests; `Shrink`
and `Grow` are turns of the two loops of `executeNewConfig`. A fixed allocation
(`SendAllocation`) is any configuration; a partition (`SendPartition`) shares
out exactly the units that were read before. There is one scheduler. CacheLib's
answers are modelled from their use: `growPool` fails when memory that no pool
reserved is too little, `addPool` and `getPoolStats(-1)` throw, and nothing
catches it (`up` becomes FALSE).

### Tmdb

Files are words of 4 bytes, since two defects of the code are about where a
word is written: an `off_t` is two words, a `tdb_key_record_t` is 22 (its padding
included), a key's text is its first word and 15 words of zero. Values are one
word long. A file is its size and its nonzero words, so that the real
`TDB_MAX_HASH_BUCKET` costs nothing. `Hash` is a constant: which keys collide
is chosen by the instance.

A call goes through `LockIdx`, `LockDat`, `FindBucket`, `FindRecord` (once per
record of the chain), then `WriteData`, `WriteKey`, `WritePointer` (store),
`MarkDeleted`, `Unchain` (delete) or `ReadData` (fetch), then `UnlockIdx`,
`UnlockDat`. `Flock` gives a lock of the other kind up in one step and gets
the new one in another, as the man page of flock says. A delete of a missing key
returns with both locks, and `Close` closes one file of two; a fetch of a
missing key ends the program. `Kill` may come at any step, `Tear` in the
middle of an append, leaving `Torn` words of it; `Open` is a new handle on the
files as they are. A handle is a process; threads that end together are several
kills. The writes between `fseek` and `fflush` of one record are one step; the
bytes that reach the file at once are what `Tear` cuts.

`TmdbMap` is the map that handles see which only insert and fetch; `Tmdb`
implements it with the value that a search would come to (`Lookup`).

### CacheAside

The benchmark's threads with the cache server and a database beside each other.
`Server` is an instance of `CacheService`, one session per thread: what
`ShmSession` implements as long as nobody calls delKV, and the backends never do.
So a setKV takes effect some time after it has returned, and the cache may drop an
entry or fail to store one. The database is a map (`store`); a call on it
is one step, which for TMDB is what `TmdbMap` promises.

`backend` fixes at the start what a build fixes: BACKEND and DISTRIBUTION, as far
as they differ here. `tmdb` sets the cache and then inserts, `leveldb` inserts and then
sets the cache, and `sql` (SQLite, MySQL, MongoDB) sets nothing and counts
`counter` up, so that none of its earlier entries is found again. `grows` is a
distribution that draws from all records a thread counts (SEQUENTIAL,
EXPONENTIAL); the others draw from those there were when the thread began.
`Reserve` is `g_next_insert_key++`, a step before the insert.

A round is the body of the loop over `run_times`, or of the warm-up: start the
threads, join them, `clean_up`. A failed query throws out of a thread and ends
the program (`program.up`), a read of a missing key too. Values are random
strings; a value is named by the draw it came from, so that no two are equal,
which is the case that shows most.

### Benchmark

The program around `CacheAside`'s threads: `main.cpp`, the sweep and the runs of
`benchmarks`, `utils/percentile.h`. What a query does to cache and database is left
to `CacheAside`; here it has a latency and is a hit or not.

`opts` is what the loop over the arguments makes of them (`Option` is one turn of
it). `main` is the main thread: preparation, rounds of the warm-up until two hit
rates are close, `run_times` rounds of the run, and after each round what it logs
(`log`). `thread[t]` is a thread of the round. The totals are shared in the ways
the code shares them: `total_hit_count` and `total_records_executed` by an atomic
`+=` (one step), the latencies under their mutex (one step), the two
`atomic<double>` by a load and a store (two steps: `AddThroughput`,
`AddUsedtime`), the plain `sequential_startidx` by a read and a write, the plain
`iterate` by whoever comes. A sum of doubles is the set of what has been added to it,
a round and a thread, so that a lost addition and one of an earlier round show.
`Average` adds up modulo `UInt`; `Sorted` takes an order in which the latencies
ascend; `Percentile` interpolates exactly, where the code has doubles. The options `--cache`, `--threads`, `--profile`, `--loginfo` choose
no path in it, and a number of rounds
below 0 (`-1` becomes INT_MAX) is one beyond the bound `RunTimes`; `--run` without a
number leaves the number there was (`Option`).

## Runs

| run | instance | states | shows |
|---|---|---|---|
| `session_safety` | 2 sessions, 2 keys, 1 value, all calls | 1.3 M | `TypeOK`, `NoRace`, `AnswerIsOfKey`, `Inv` with delKV, crashes, evictions |
| `session_service` | 2 sessions, 1 key, 2 values, no delKV | 145 k | `FreeMeansFree`, `NoDelInv`, `ImplementsService`; liveness `CallsReturn`, `RequestsServed`, `CloseEnds` |
| `session_del` | 1 session with delKV | - | violation: after delKV `semaphore_Server` does not mean free (`server.cpp:123`) |
| `registry` | 2 clients, 2 pools, 2 sessions, 1 restart | 40 k | `TypeOK`, `Apart`, `CountExact`, `OwnSession`, `SizedBeforeUse`, `NothingLeft`, `FreshFirstStart`; liveness `AddpoolReturns`, `DestructorEnds` |
| `registry_restart` | 2 clients, 1 pool, 2 sessions, 1 restart | - | violation: after a restart a session starts with old objects (`server.cpp:94`, `116`) |
| `resize` | 3 pools of 1.5 units, 5 units of memory, 2 configurations | 96 k | `TypeOK`, `ConfigReached`, `PartitionReached`, `ShortOnlyOfMemory`, `ServerEnds` |
| `tmdb_insert` | 2 handles, 2 keys of one bucket, 2 values, kills, torn appends | 577 k | `IndexSound`, `NoCircularWait`, `ImplementsMap` |
| `tmdb_all` | 2 handles, 3 keys of two buckets, every call | 1.1 M | `TypeOK`, `Exclusive`, `DataAppendOnly` |
| `cache_aside` | 2 threads, 2 queries each, 2 rounds, 1 prepared record, 3 kinds of backend | 980 k | `TypeOK`, `InsertsAreNew`, `Coherent`, `CleanedUp`, `ReadsFind` |
| `benchmark` | 2 threads, sweeps of 3 records, 2 rounds of 2 queries, latencies 1, 2 and 6 | 948 k | `TypeOK`, `LogOfRound`, `StatisticsSound`, `SweptFirst` |
| `benchmark_defaults` | the same, no options | - | violation: no round is made (`main.cpp:84`) |
| `tmdb_change` | 1 handle, insert, replace and delete | - | violation: a replaced value is lost (`tmdb.cpp:506`); without replaces, a deleted key is still there (`tmdb.cpp:714`) |

Why the bounds are enough. *Sessions* meet only in the cache: two of them and two
keys have every conflict (same key, different keys), and a session's own
protocol needs no more than its next call. *Registry*: two clients
give a session that ends, or lives, while another begins in the same pool or
another one, which is what a wrong choice of numbers needs; `MaxSessions` counts
threads ever started, so that a number is used a second time. That safety does not
need a third is proved, for any number of each. *Resize*: three pools give a
configuration whose turns depend on each other, the unit of two grains against a pool
of three gives rounding, and the last grain of memory fits no unit. *Tmdb*: two
handles are enough for every lock conflict; two keys of one bucket reach a first and
a later record of a chain, the third key is in the bucket that a delete of
`k1` writes to by mistake. `MaxData` counts data records after which no store
begins; two handles that began before it reach three, the first that are linked.
`Torn` = {3}: the key or the data is there but not what follows it. *Cache aside*:
a thread needs one query to insert and one to read a key another thread has
reserved, and the second round begins with the same keys and a cache that is
not empty. There `FewEntries` leaves out the states of tmdb with more than
`MaxEntries` entries in the cache: tmdb keeps the records of the first round, the
other backends do not, and their entries multiply without meeting each other, each
being of a record of its own; the other kinds and the first round have no such bound,
and `Coherence` is proved without it. *Benchmark*: two threads are what an addition can be lost between; four
latencies of 6 pass the `UInt` of 16, others do not; a second round has totals
that could be left over. `MaxWarmups` bounds a warm-up that need not end. Deadlock is
not checked where a system may rightly stop: every run has states in which all
clients are gone or killed, the server has ended, or a bound is reached.

Fairness. `ShmSession` and `PoolRegistry` assume weak fairness of each server
thread, of each client's calls in progress and of the listener: all are threads
that spin or wait on a semaphore which has exactly one other user, so that a step
that can be taken stays so. Nothing makes a client call, a server stop, or the
cache evict. No liveness is claimed for TMDB: `flock` promises no order;
and none for the warm-up of the benchmark, whose hit rate need not settle.

## Proofs

`ShmSession_proofs`, for any sets of sessions, keys and values:

- `Invariance`: `Spec => []Inv`. A type invariant alone is not inductive, and
  neither is `NoRace`. `Inv` says whose turn it is: the values of the three
  semaphores and the two program counters of a session are in one of five
  combinations (`TurnOfNobody`, `TurnOfClient`, `TurnOfThread`, `TurnGoesBack`,
  `TurnIsOver`); the area holds the request of the call that waits for it; the
  cache holds values under their own keys. The proof goes session by session: a
  step of one session leaves what the invariant reads of another (`View`) as it
  is, except for the cache.
- `TypeCorrect`, `RaceFreedom`, `AnswersAreOfKey` follow from it.
- `NoDelInvariance`, `FreeArea`: assuming `"DEL" \notin Kinds`, that is, no client
  calls delKV, a thread leaves its loop only for CLOSE and `semaphore_Server` is
  positive only when the area is free. `session_del` shows that the assumption
  is needed.
- `Refinement`: under the same assumption `ShmSession` implements
  `CacheService`. Each step maps to one step of the service or to none;
  `PostRequest` is `HandOver`, the `Serve` actions are `Execute`.

`Tmdb_proofs`, for any handles, keys, buckets, `Torn` and every kind of call:

- `Locking`: the inductive invariant. From the end of `LockDat` until it gives
  them back a call has the locks it wants on both files; an exclusive lock
  excludes all others; a step that writes belongs to a call that wants exclusive
  locks. It allows for locks left by deletes and for conversions.
- `Exclusion`: `Spec => []Exclusive` follows.
- `AppendOnly`: `Spec => DataAppendOnly`, from what `Written` leaves alone
  (`WrittenBefore`, `Appended`) and the fact that the file has its header.

- `LockOrder`: assuming `"DELETE" \notin Kinds`, a handle outside its calls holds no
  lock, so that every call locks the index file first and no lock is converted.
  `NoDeadlock` (`NoCircularWait`) and `NoLongerCircle`, circles of any length,
  follow. A delete of a missing key returns with its locks, which is why the
  assumption is needed.

`Tmdb_index`, for the same, with kills and torn appends anywhere:

- `IndexInvariant`, assuming `"DELETE" \notin Kinds`: there is a set of places
  (`Linking`) at which whole key records of different keys stand; a bucket leads to
  the first of its places and each of them to the next one, the last to none
  (`Leads`); and each call knows where it is among them (`Knows`). So the
  invariant needs no walk along a chain. Replaces keep it too: they append data and
  write into the padding of a key record, after which its pointer is 0 (`HasDatum`).
  `TypeCorrect` (`TypeOK`) follows.
- `ChainsWhole` (`IndexSound`) and `Refinement` (`ImplementsMap`), assuming
  `Kinds \subseteq {"INSERT", "FETCH"}`: places ascend along a chain and the file is finite, so that the
  recursive functions that walk chains are defined; the search of a key gives the
  value `Lookup` gives, the write of a bucket is the moment at which an
  insert takes effect, and no other step changes what a search comes to. `tmdb_change`
  shows that the assumption is needed.

`PoolRegistry_proofs`, for any pools, clients, sessions and restarts:

- `Registration`: the inductive invariant. The numbers in use are those of live
  sessions and lie below the record's `next`; `next` goes back to 0 only at
  `listener.at = "new"`, and then the pool has no live session (`Numbers`): the
  listener saw a count of 0 outside the lock, and nobody but the listener raises it.
  An object has the name of the session that created it, and whoever opened it
  opened it by that name (`Creators`). `SessionsApart` and `Counts` follow, also
  for runs after a restart.
- `FirstRunServed`: as long as the server has not been stopped every name stands for
  the object of its own live session, from the step that creates it to the step
  that removes it; a served client holds the objects of its thread, the thread
  stays as long as its client, and one of the two has the turn. `OwnSessions`,
  `Sized`, `NothingLeftBehind` and `FreshFirst` follow. After a restart this is
  false (`registry_restart`).
- `TurnsBounded`: what bounds the semaphores, also after a restart, when sessions share
  objects of a stopped server. A turn is a unit of `semaphore` or
  `semaphore_Server`, or a client that has taken the one and not posted the other;
  a thread that has not come to `semaphore_Server` counts as one too. The
  sum over all sessions never grows: a thread makes its turn once, a request
  becomes a free area, and a stop loses turns. `semaphore_GetBack` is never posted
  here. `TypeCorrect` (`TypeOK`) follows.

`PoolResize_proofs`, for any pools and sizes:

- `Known`: the pools of a configuration exist as far as the loops have got, and those
  of a partition all do, since no pool is ever removed; so an entry
  whose pool does not exist is met in the first loop and never by a partition.
  `WhatEndsTheServer` (`ServerEnds`) says this, and that the only other end is a new
  pool without memory for it.
- `SizesInvariant`: `Reserved`, the sizes of all pools sum up to no more than the
  memory; `Progress`, in the first loop the pools before the current entry are not
  above what is wanted of them, in the second all are not above and those before it
  have it; and whether a configuration fits (`FitsIn`) is kept by every turn,
  because a turn replaces whole units of a pool and leaves the others. `TypeCorrect`
  (`TypeOK`) follows.
- `InForce` (`ConfigReached`): in the second loop every pool is at most at its wanted
  size, so that the sum of the sizes after a grow is at most the sum of the wanted
  sizes, which fits: no `growPool` fails. `PartitionInForce`
  (`PartitionReached`): a partition shares out the units that were read, so that its
  units sum up to those the pools have, and it fits with what they hold
  beyond whole units.
- `OnlyMemoryLacks` (`ShortOnlyOfMemory`), also for what does not fit: a turn of the second
  loop gives a pool its units or finds less memory left than it lacks
  (`GrowSettles`), and later turns of that loop free none, so that this is still so at
  the end (`Filled`).

`Sums` has what these proofs and those of `Benchmark` need of sums over finite sets: that they exist, do not
depend on the order, are monotone, and change as one or two elements do. A sum
is `MapThenSumSet` as a recursive function on the subsets; the inductions are
over finite sets by the well-foundedness of proper subsets, stated for sets
(`SetInduction`), not for operators.

`Benchmark_proofs`, for any threads, records, latencies and bounds:

- `TypeCorrect` (`TypeOK`).
- `SweepOnce` (`SweptFirst`): while the first round of the warm-up runs, `iterate` is
  set or some thread sweeps; when a round is over some thread has cleared it.
- `RoundTold` (`LogOfRound`): the records and hits added so far are those of the
  threads that have added theirs; each of the two sums of doubles is a set
  of additions of this round, and the last thread to store leaves its own in it.
- `StatisticsTold` (`StatisticsSound`): whatever function gives latencies a weight
  (`Weights`), the latencies appended so far weigh as much as those of the threads that are
  done (`LatenciesInv`). So counts and the sum over the appended latencies are those
  over the threads, in whatever order these came. An order in which latencies
  ascend exists (`OrderExists`), at least `k` are no greater than the `k`-th (`Ranks`),
  a percentile lies between two neighbours (`PercentileBetween`), and adding up
  modulo `UInt` leaves the sum modulo `UInt` (`AddedUpUInt`).

`CacheAside_proofs`, for any threads, numbers of records, queries and rounds, and
whatever the server does:

- `KeysOfRounds`: the inductive invariant of keys and records. A round gives out at
  most one key per turn, a thread and a query of it: the counter is bounded by the
  number of turns taken (`Taken`, a finite set), so that it never passes the
  keys there are. Keys not given out have no record; keys given out have one or are
  being inserted by the one thread that has them; LevelDB is open in one thread.
  `TypeCorrect`, `NewInserts`, `RoundsLeaveNothing` and `ReadsMeetInserts` follow.
- `ValuesAgree`: a value is followed from the setKV that is called to the request
  handed over and to the entry of the cache: everywhere, if it is one
  that `Coherent` makes a claim of (`Claimed`: of a prepared record, of any record
  until the first clean-up, or in later rounds a value drawn in that round and not
  ignored by tmdb), it is its record's, or the one that the record is going to be
  inserted with; of entries of removed records nothing is said. What makes it inductive is that
  a record never changes once it is there, and that an insert finds none
  (`KeyInv`). Later rounds make claims of the values they draw themselves, and no
  value anywhere is of a round to come (`DrawnBefore`). `Coherence` follows.

Assumptions are those on the constants: `KindsAssumption` and `NoneAssumption` of
`CacheCalls`, `KindsAssumption` and `TextAssumption` of `TmdbCalls`,
`HashAssumption` and `BoundsAssumption` of `Tmdb`, `BoundsAssumption` of
`PoolRegistry`, `SizesAssumption` of `PoolResize`, `BoundsAssumption` (finitely
many threads, at least one record and query) and `NoneAssumption` of `CacheAside`,
`BoundsAssumption` (finitely many threads and one at least, one record and query at
least, latencies that are unsigned ints) of `Benchmark`; TLC evaluates all of them.

Only model-checked: liveness (out of the prover's reach, as is ENABLED), and
`TypeOK` of `Tmdb` with deletes: its proof rests on the index invariant, which a delete
of this code breaks. `IndexSound` and `ImplementsMap` are claimed, like in the run, of handles that
insert and fetch.

## What the runs say of the code

1. `delKV` (`server.cpp:165-173`): no `break` after the DEL case. The area is
   given free twice and the session's thread ends; the next `getKV` has no one to
   answer it.
2. Restart (`server.cpp:94-126`): objects of a stopped server are opened, not
   created; a session may start with its area taken or a request pending.
3. `TDB_REPLACE` (`tmdb.cpp:695-697`) writes four bytes before `data_ptr`: the
   key loses its value. `tdb_delete` (`tmdb.cpp:746-771`) takes `data_ptr` for
   `next_ptr` and writes it into another bucket. One property, `ChangesTakeEffect`,
   says that both take effect; TLC stops at a replace, and at a delete when
   `Kinds` in `Tmdb_change.cfg` has no `"REPLACE"`.
4. Without options the benchmark prepares the database and makes no round
   (`main.cpp:30`, `170`), although its help (`main.cpp:84`) says it runs both and
   `src/backend/readme.md:74` says that it runs the workload: `run_times` is 0
   until `--run` is followed by a number.

More is in the models without a run of its own, since no property can be claimed
that the code keeps:

- `clean_up` of TMDB (`src/backend/src/backend/TmdbBackend.cpp:57`) removes nothing,
  although `src/backend/readme.md:93` says that inserted data is removed; `CleanedUp`
  and, after the first round, `InsertsAreNew` are claimed of the other backends
  only.
- `counter` begins at 0 in every round while the cache keeps its entries, so that
  after a clean-up the cache may hold records that are gone; `Coherent` is claimed
  for all records until the first clean-up, for prepared records always, and in later
  rounds for what they have set themselves, unless TMDB ignores their inserts.
- `main.cpp:89` says "aggregate the results of multiple threads", but of two
  additions to `total_throughput` or `total_usedtime` that meet one is lost
  (`main.cpp:202`); `LogOfRound` claims of the two sums at least one thread's.
- The `<num>` of `--warmup` (`main.cpp:80`) is read by nobody.
- `average` overflows (`percentile.h:38`); `StatisticsSound` claims it for sums that
  fit.
- LevelDB can be opened once per process, but each thread of a round opens it
  (`main.cpp:179`): one that opens it while another has it ends the program
  (`OpenBackend`).
- A delete of a missing key in TMDB returns with both locks (`tmdb.cpp:743`), and two
  handles can then wait for each other; `NoCircularWait` is claimed without
  deletes.

The rest holds on the instances above. `PROJECT.json` lists the hazards, those
that no property covers with the reason.

## Not modelled

CacheLib's allocator, eviction policy and slab release (external). `CACHE_HIT`
statistics (compiled out) and the tail-latency class (unused). The address and
length of keys, pool names longer than the 32 bytes of the listener's answer, the
clash of prefixes. After E, session threads that use a cache main has destroyed
(`Stop` ends all at once). TMDB: creation by several handles at once;
`tdb_nextrec`, whose body is commented out, and `tdb_rewind`, which keeps no state
another call reads; buffers of the C library; values of more than one word; the
cached variant KID_CACHELIB; the string helpers of `tm_util.cpp`. Of the scripts:
measurements, cgroups, process control. Of the backends: the creation of
databases, failures of database servers, the preparation with a cache (its client
is gone when it is used, `main.cpp:103`), packing of fields; of the benchmark: the
distributions (any key they can draw is drawn), doubles as such.

## Plan

Done, in this order: `ShmSession` with `CacheService` (the core), `PoolRegistry`,
`PoolResize`, `Tmdb` with `TmdbMap`, `CacheAside`, `Benchmark`; proofs of the
session's safety and refinement, of TMDB's locks, data file, index and map, of the
registration, of the sizes of pools, of keys, records and cache coherence, of the
benchmark's rounds and statistics.

Next:

1. The creation of the files of TMDB by several handles
   (`TmdbBackend.cpp:8`), as an action of `Tmdb` that truncates.
2. What still holds of TMDB's index with deletes, as an invariant that can be proved.
