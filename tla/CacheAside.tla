----------------------------- MODULE CacheAside -----------------------------
(***************************************************************************)
(* The benchmark and its backends: threads that insert records into a      *)
(* database and read them, with the cache server beside it (main.cpp,      *)
(* benchmarks/YCSBBenchmark.cpp, backend/*.cpp, cache/AutoIncCache.cpp).   *)
(* Each thread has a session of its own with the server, as CacheService   *)
(* promises it, so that a setKV takes effect after it has returned; a      *)
(* closed session leaves nothing behind, and the next round's is as new.   *)
(*                                                                         *)
(* The program makes several rounds.  In each it starts its threads, joins *)
(* them, and removes what they inserted.  A failed query ends it.  The     *)
(* cache outlives the rounds.                                              *)
(***************************************************************************)
EXTENDS Naturals, FiniteSets

CONSTANTS
  Thread,
  NoValue,      \* no record, or no entry in the cache
  NoKey,
  MAX_RECORDS,
  MAX_QUERIES,  \* queries of a thread in a round
  Rounds        \* run_times

ASSUME BoundsAssumption ==
  /\ IsFiniteSet(Thread)
  /\ MAX_RECORDS \in Nat \ {0} /\ MAX_QUERIES \in Nat \ {0} /\ Rounds \in Nat

\* Keys of records, and the names of their entries in the cache: the counter of
\* an AutoIncCache before the key.  All threads have the subpool thread_0.
Record   == 0 .. MAX_RECORDS + Cardinality(Thread) * MAX_QUERIES - 1
Prepared == 0 .. MAX_RECORDS - 1
Entry    == (0 .. MAX_QUERIES) \X Record

\* Values of records.  They are random strings, and no two draws are the same: a
\* value is named by the draw, before the rounds or in the query of a thread.
Prepare(k)        == <<0, k>>
Draw(round, t, q) == <<round, t, q>>
Data == {Prepare(k) : k \in Prepared}
          \cup {Draw(r, t, q) : r \in 1 .. Rounds, t \in Thread, q \in 0 .. MAX_QUERIES - 1}

ASSUME NoneAssumption == NoValue \notin Data

VARIABLES
  backend,            \* [kind, grows]: BACKEND and DISTRIBUTION, fixed when built
  program,            \* [up, round]
  g_next_insert_key,
  store,              \* the database: the value of each record
  bench,              \* per thread: control state, query, counters
  cache, stage, calling, inbox, answer  \* CacheService

Server == INSTANCE CacheService WITH
  Session <- Thread, Key <- Entry, Kinds <- {"SET", "GET"}

server == <<cache, stage, calling, inbox, answer>>
vars   == <<backend, program, g_next_insert_key, store, bench, server>>

\* "sql" stands for SQLite, MySQL and MongoDB, which put nothing into the cache
\* when they insert.
BackendKinds == {"tmdb", "leveldb", "sql"}

Off == [at |-> "off", query |-> "none", key |-> 0, value |-> NoValue,
        counter |-> 0, max_records |-> MAX_RECORDS, current_query |-> 0]

\* The preparation has loaded the database; the cache is empty.
Init ==
  /\ backend \in [kind : BackendKinds, grows : BOOLEAN]
  /\ program = [up |-> TRUE, round |-> 0]
  /\ g_next_insert_key = MAX_RECORDS
  /\ store = [k \in Record |-> IF k \in Prepared THEN Prepare(k) ELSE NoValue]
  /\ bench = [t \in Thread |-> Off]
  /\ Server!Init

-----------------------------------------------------------------------------
At(t, at)  == program.up /\ bench[t].at = at
Become(t, b) == bench' = [bench EXCEPT ![t] = b]

\* The name of an entry without the key.
EntryOf_NoKey(b) == <<b.counter, 0>>

EntryOf(b) == <<b.counter, b.key>>

\* The call the cache is asked for.
GetOf(b) == [ctrl |-> "GET", key |-> EntryOf(b), value |-> NoValue]
SetOf(b) == [ctrl |-> "SET", key |-> EntryOf(b), value |-> <<EntryOf(b), b.value>>]

\* The query is done: an insert makes one more record.
Finished(b) ==
  [b EXCEPT !.at = "next", !.query = "none", !.key = 0, !.value = NoValue,
            !.current_query = @ + 1,
            !.max_records = IF b.query = "insert" THEN @ + 1 ELSE @]

\* An exception leaves the thread: std::terminate.
Terminate ==
  /\ program' = [program EXCEPT !.up = FALSE]
  /\ UNCHANGED <<backend, g_next_insert_key, store, bench, server>>

rest == <<backend, program>>

-----------------------------------------------------------------------------
(***************************************************************************)
(* Rounds.                                                                 *)
(***************************************************************************)
\* The counter of keys is not set back.
StartRound_KeepsKey ==
  /\ program.up /\ program.round < Rounds
  /\ \A t \in Thread : At(t, "off")
  /\ program' = [program EXCEPT !.round = @ + 1]
  /\ bench' = [t \in Thread |-> [Off EXCEPT !.at = "start"]]
  /\ UNCHANGED <<backend, g_next_insert_key, store, server>>

StartRound ==
  /\ program.up /\ program.round < Rounds
  /\ \A t \in Thread : At(t, "off")
  /\ program' = [program EXCEPT !.round = @ + 1]
  /\ g_next_insert_key' = MAX_RECORDS
  /\ bench' = [t \in Thread |-> [Off EXCEPT !.at = "start"]]
  /\ UNCHANGED <<backend, store, server>>

\* The constructors.  All threads open the same LevelDB, which a process can
\* open once at a time.
OpenBackend(t) ==
  /\ At(t, "start")
  /\ IF backend.kind = "leveldb"
          /\ \E u \in Thread : bench[u].at \notin {"off", "start", "closed"}
       THEN Terminate
       ELSE /\ Become(t, [bench[t] EXCEPT !.at = "next"])
            /\ UNCHANGED <<rest, g_next_insert_key, store, server>>

\* The thread has made its queries, and its backend is closed.
CloseBackend(t) ==
  /\ At(t, "next") /\ bench[t].current_query = MAX_QUERIES
  /\ Become(t, [bench[t] EXCEPT !.at = "closed"])
  /\ UNCHANGED <<rest, g_next_insert_key, store, server>>

\* The last record stays.
Inserted_OffByOne ==
  IF backend.kind = "tmdb" THEN {} ELSE MAX_RECORDS .. g_next_insert_key - 2

\* The records that clean_up removes.
Inserted ==
  CASE backend.kind = "tmdb"    -> {}
    [] backend.kind = "leveldb" -> MAX_RECORDS .. g_next_insert_key - 1
    [] backend.kind = "sql"     -> {k \in Record : k >= MAX_RECORDS}

\* The threads are joined.  Each has closed its session, and that waits until the
\* server has executed the requests before.
CleanUp ==
  /\ \A t \in Thread : At(t, "closed") /\ inbox[t] = Server!NoCall
  /\ store' = [k \in Record |-> IF k \in Inserted THEN NoValue ELSE store[k]]
  /\ bench' = [t \in Thread |-> Off]
  /\ UNCHANGED <<rest, g_next_insert_key, server>>

-----------------------------------------------------------------------------
(***************************************************************************)
(* A query that reads.                                                     *)
(***************************************************************************)
\* The bound is taken for a key.
Readable_Inclusive(t) == IF backend.grows THEN 0 .. bench[t].max_records ELSE Prepared

\* ZIPFIAN, UNIFORM and HOTSPOT draw from the records there were at first,
\* SEQUENTIAL and EXPONENTIAL from all that the thread counts.
Readable(t) == IF backend.grows THEN 0 .. bench[t].max_records - 1 ELSE Prepared

Read(t, k) ==
  LET b == [bench[t] EXCEPT !.at = "get", !.query = "read", !.key = k]
  IN /\ At(t, "next") /\ bench[t].current_query < MAX_QUERIES
     /\ Server!Begin(t, GetOf(b))
     /\ Become(t, b)
     /\ UNCHANGED <<rest, g_next_insert_key, store>>

AskCache(t) ==
  /\ At(t, "get")
  /\ Server!HandOver(t)
  /\ UNCHANGED <<rest, g_next_insert_key, store, bench>>

\* A hit ends the query.
CacheAnswers(t) ==
  /\ At(t, "get")
  /\ Server!Return(t)
  /\ Become(t, IF answer[t] = NoValue
                 THEN [bench[t] EXCEPT !.at = "fetch"] ELSE Finished(bench[t]))
  /\ UNCHANGED <<rest, g_next_insert_key, store>>

\* On a miss the database is asked, and what it has is put into the cache.  No
\* backend gets over a record that is not there.
Fetch(t) ==
  LET b == [bench[t] EXCEPT !.at = "set", !.value = store[bench[t].key]]
  IN /\ At(t, "fetch")
     /\ IF b.value = NoValue
          THEN Terminate
          ELSE /\ Server!Begin(t, SetOf(b))
               /\ Become(t, b)
               /\ UNCHANGED <<rest, g_next_insert_key, store>>

-----------------------------------------------------------------------------
(***************************************************************************)
(* A query that inserts: tmdb sets the cache first, leveldb the database,  *)
(* and sql leaves all entries of the cache behind by counting up.          *)
(***************************************************************************)
\* The key is read and not counted up.
Reserve_NoIncrement(t) ==
  LET b == [bench[t] EXCEPT !.query = "insert", !.key = g_next_insert_key,
                            !.value = Draw(program.round, t, bench[t].current_query),
                            !.at = IF backend.kind = "tmdb" THEN "set" ELSE "store"]
  IN /\ At(t, "next") /\ bench[t].current_query < MAX_QUERIES
     /\ IF backend.kind = "tmdb" THEN Server!Begin(t, SetOf(b)) ELSE UNCHANGED server
     /\ Become(t, b)
     /\ UNCHANGED <<rest, g_next_insert_key, store>>

Reserve(t) ==
  LET b == [bench[t] EXCEPT !.query = "insert", !.key = g_next_insert_key,
                            !.value = Draw(program.round, t, bench[t].current_query),
                            !.at = IF backend.kind = "tmdb" THEN "set" ELSE "store"]
  IN /\ At(t, "next") /\ bench[t].current_query < MAX_QUERIES
     /\ g_next_insert_key' = g_next_insert_key + 1
     /\ IF backend.kind = "tmdb" THEN Server!Begin(t, SetOf(b))
                                 ELSE UNCHANGED server
     /\ Become(t, b)
     /\ UNCHANGED <<rest, store>>

\* TDB_INSERT keeps a record that is there.
InsertTmdb(t) ==
  /\ store' = [store EXCEPT ![bench[t].key] = IF @ = NoValue THEN bench[t].value ELSE @]
  /\ Become(t, Finished(bench[t]))
  /\ UNCHANGED <<rest, g_next_insert_key, server>>

\* Put overwrites.
InsertLevelDB(t) ==
  /\ store' = [store EXCEPT ![bench[t].key] = bench[t].value]
  /\ Server!Begin(t, SetOf(bench[t]))
  /\ Become(t, [bench[t] EXCEPT !.at = "set"])
  /\ UNCHANGED <<rest, g_next_insert_key>>

\* The key is a primary key: a record that is there makes the INSERT fail.
InsertSql(t) ==
  IF store[bench[t].key] # NoValue
    THEN Terminate
    ELSE /\ store' = [store EXCEPT ![bench[t].key] = bench[t].value]
         /\ Become(t, [Finished(bench[t]) EXCEPT !.counter = @ + 1])
         /\ UNCHANGED <<rest, g_next_insert_key, server>>

InsertRecord(t) ==
  /\ At(t, "store")
  /\ \/ backend.kind = "tmdb"    /\ InsertTmdb(t)
     \/ backend.kind = "leveldb" /\ InsertLevelDB(t)
     \/ backend.kind = "sql"     /\ InsertSql(t)

\* setKV returns when its request is handed over.
SetCache(t) ==
  /\ At(t, "set")
  /\ Server!HandOver(t)
  /\ Become(t, IF bench[t].query = "insert" /\ backend.kind = "tmdb"
                 THEN [bench[t] EXCEPT !.at = "store"] ELSE Finished(bench[t]))
  /\ UNCHANGED <<rest, g_next_insert_key, store>>

-----------------------------------------------------------------------------
\* The server, which goes on when the program is gone.
ServerStep ==
  /\ \/ \E t \in Thread : Server!Execute(t)
     \/ \E e \in Entry : cache[e] # NoValue /\ Server!Drop(e)
  /\ UNCHANGED <<rest, g_next_insert_key, store, bench>>

Next ==
  \/ StartRound \/ CleanUp \/ ServerStep
  \/ \E t \in Thread :
       \/ OpenBackend(t) \/ CloseBackend(t)
       \/ \E k \in Readable(t) : Read(t, k)
       \/ AskCache(t) \/ CacheAnswers(t) \/ Fetch(t)
       \/ Reserve(t)
       \/ InsertRecord(t) \/ SetCache(t)

Spec == Init /\ [][Next]_vars

-----------------------------------------------------------------------------
TypeOK ==
  /\ backend \in [kind : BackendKinds, grows : BOOLEAN]
  /\ program \in [up : BOOLEAN, round : 0 .. Rounds]
  /\ g_next_insert_key \in MAX_RECORDS .. Cardinality(Record)
  /\ store \in [Record -> Data \cup {NoValue}]
  /\ \A t \in Thread :
       /\ bench[t].at \in {"off", "start", "next", "get", "fetch", "set", "store",
                           "closed"}
       /\ bench[t].key \in Record /\ bench[t].value \in Data \cup {NoValue}
       /\ bench[t].counter \in 0 .. bench[t].current_query
       /\ bench[t].max_records \in MAX_RECORDS .. MAX_RECORDS + bench[t].current_query
       /\ bench[t].current_query \in 0 .. MAX_QUERIES

Inserting(t, k) == bench[t].query = "insert" /\ bench[t].key = k

\* A key is taken by one insert only and is not in the database then, although
\* the threads share the counter and every round begins with the same keys
\* (YCSBBenchmark.cpp:119, main.cpp:124, 172).  Not so with tmdb after the first
\* round, whose clean_up removes nothing.
InsertsAreNew ==
  backend.kind # "tmdb" \/ program.round <= 1 =>
    /\ \A t \in Thread : bench[t].query = "insert" /\ bench[t].at = "store" =>
         store[bench[t].key] = NoValue
    /\ \A t, u \in Thread : \A k \in Record :
         Inserting(t, k) /\ Inserting(u, k) => t = u

\* Until the first clean-up no entry of the cache differs from the database,
\* whatever the order of set, insert and late execution.  Later no entry of a
\* prepared record does, and none that was set with a value drawn in the round in
\* progress, except with tmdb, whose inserts are ignored then; entries of records
\* that were removed may be left from earlier rounds (TmdbBackend.cpp:27-50,
\* LevelDBBackend.cpp:44-108, SQLiteBackend.cpp:56-82).  A record that is in the
\* cache and not in the database is one that tmdb is inserting.
AtWork     == \E t \in Thread : bench[t].at # "off"
RoundOf(v) == v[1]

Claimed(k, v) ==
  \/ k \in Prepared
  \/ AtWork /\ program.round <= 1
  \/ AtWork /\ backend.kind # "tmdb" /\ RoundOf(v) = program.round

Coherent ==
  \A e \in Entry :
    LET k == e[2]
        v == cache[e][2]
    IN cache[e] # NoValue /\ Claimed(k, v) =>
         \/ v = store[k]
         \/ store[k] = NoValue /\ \E t \in Thread : Inserting(t, k) /\ bench[t].value = v

\* Between rounds the database has the records it was prepared with (readme.md:93
\* "it will automatically remove the data inserted"); of the backends tmdb does
\* not see to it.
CleanedUp ==
  backend.kind # "tmdb" /\ (\A t \in Thread : bench[t].at = "off") =>
    \A k \in Record : store[k] = NoValue <=> k \notin Prepared

\* What a thread reads is there, or another thread is just inserting it; and that
\* only if the distribution takes in new records, and not in LevelDB, which one
\* thread has at a time (YCSBBenchmark.cpp:72-121).
ReadsFind ==
  \A t \in Thread : bench[t].at = "fetch" /\ store[bench[t].key] = NoValue =>
    /\ backend.grows /\ backend.kind # "leveldb"
    /\ \E u \in Thread \ {t} : Inserting(u, bench[t].key)
=============================================================================
