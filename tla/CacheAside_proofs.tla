-------------------------- MODULE CacheAside_proofs --------------------------
(***************************************************************************)
(* Proofs about CacheAside for any threads, numbers of records, queries    *)
(* and rounds, whatever the server does.                                   *)
(***************************************************************************)
EXTENDS CacheAside, FiniteSetTheorems, TLAPS

Places  == {"off", "start", "next", "get", "fetch", "set", "store", "closed"}
Queries == {"none", "read", "insert"}

Benches == [at : Places, query : Queries, key : Nat, value : Data \cup {NoValue},
            counter : Nat, max_records : Nat, current_query : Nat]

\* The queries of the round that have taken a key or may have taken one.
Turns == Thread \X (0 .. MAX_QUERIES - 1)
Taken == {x \in Turns : \/ x[2] < bench[x[1]].current_query
                        \/ x[2] = bench[x[1]].current_query /\ bench[x[1]].query = "insert"}

Resting == \A t \in Thread : bench[t].at = "off"

Shape ==
  /\ backend \in [kind : BackendKinds, grows : BOOLEAN]
  /\ program \in [up : BOOLEAN, round : 0 .. Rounds]
  /\ g_next_insert_key \in Nat /\ g_next_insert_key >= MAX_RECORDS
  /\ store \in [Record -> Data \cup {NoValue}]
  /\ bench \in [Thread -> Benches]

\* Where a thread is with its query.
BenchInv(t) ==
  LET b == bench[t]
  IN /\ b.current_query \in 0 .. MAX_QUERIES
     /\ b.counter <= b.current_query
     /\ b.max_records \in MAX_RECORDS .. MAX_RECORDS + b.current_query
     /\ b.query # "none" => b.current_query < MAX_QUERIES
     /\ b.at \in {"off", "start", "next", "closed"} => b.query = "none" /\ b.key = 0
     /\ b.at \in {"get", "fetch"} => b.query = "read"
     /\ b.at = "store" => b.query = "insert" /\ b.value # NoValue
     /\ b.at = "set" => b.query # "none" /\ b.value # NoValue
     /\ b.at # "off" => program.round >= 1 /\ b.max_records <= g_next_insert_key
     /\ b.query = "read" => b.key < b.max_records /\ (backend.grows \/ b.key \in Prepared)
     /\ b.query = "insert" => b.max_records <= b.key /\ b.key < g_next_insert_key

\* The counter gives a key out once in a round, and the round ends before the
\* keys do.
KeysApart ==
  /\ g_next_insert_key - MAX_RECORDS <= Cardinality(Taken) \/ Resting
  /\ g_next_insert_key - MAX_RECORDS <= Cardinality(Turns)
  /\ \A t, u \in Thread :
       t # u /\ bench[t].query = "insert" /\ bench[u].query = "insert" => bench[t].key # bench[u].key
  /\ \A t \in Thread : bench[t].at = "off" => Resting

\* LevelDB is open in one thread at most.
OneOpen ==
  backend.kind = "leveldb" =>
    \A t, u \in Thread : bench[t].at \notin {"off", "start", "closed"}
                         /\ bench[u].at \notin {"off", "start", "closed"} => t = u

\* Keys that are not given out have no record, and of those that are given out
\* only the ones being inserted have none.
Records ==
  /\ \A k \in Prepared : store[k] # NoValue
  /\ ~Resting => \A k \in MAX_RECORDS .. g_next_insert_key - 1 :
                   store[k] # NoValue \/ \E t \in Thread : Inserting(t, k)
  /\ backend.kind # "tmdb" \/ program.round <= 1 =>
       /\ \A k \in Record : k >= g_next_insert_key => store[k] = NoValue
       /\ \A t \in Thread :
            /\ bench[t].at = "store" => store[bench[t].key] = NoValue
            /\ bench[t].at = "set" /\ bench[t].query = "insert" /\ backend.kind = "tmdb"
                 => store[bench[t].key] = NoValue
  /\ backend.kind # "tmdb" \/ program.round = 0 =>
       (Resting => \A k \in Record : k >= MAX_RECORDS => store[k] = NoValue)
  /\ \A t \in Thread :
       bench[t].at = "set" /\ bench[t].query = "insert" /\ backend.kind # "tmdb"
         => store[bench[t].key] # NoValue

KeyInv == Shape /\ (\A t \in Thread : BenchInv(t)) /\ KeysApart /\ OneOpen /\ Records

-----------------------------------------------------------------------------
\* There are as many keys as there are turns to take one.
LEMMA EnoughKeys ==
  /\ IsFiniteSet(Turns) /\ Cardinality(Turns) \in Nat
  /\ Record = 0 .. MAX_RECORDS + Cardinality(Turns) - 1
  /\ Cardinality(Record) = MAX_RECORDS + Cardinality(Turns)
  <1> DEFINE Q == 0 .. MAX_QUERIES - 1
  <1>1. IsFiniteSet(Q) /\ Cardinality(Q) = MAX_QUERIES
    <2>1. Cardinality(Q) = (MAX_QUERIES - 1) - 0 + 1
      BY BoundsAssumption, FS_Interval
    <2> QED
      BY <2>1, BoundsAssumption, FS_Interval
  <1>2. IsFiniteSet(Turns) /\ Cardinality(Turns) = Cardinality(Thread) * MAX_QUERIES
    BY <1>1, BoundsAssumption, FS_Product DEF Turns
  <1>3. Cardinality(Turns) \in Nat
    BY <1>2, FS_CardinalityType
  <1>4. Record = 0 .. MAX_RECORDS + Cardinality(Turns) - 1
    BY <1>2 DEF Record
  <1>5. Cardinality(Record) = MAX_RECORDS + Cardinality(Turns)
    <2>1. MAX_RECORDS + Cardinality(Turns) - 1 \in Int /\ 0 <= MAX_RECORDS + Cardinality(Turns) - 1
      BY <1>3, BoundsAssumption
    <2>2. Cardinality(Record) = (MAX_RECORDS + Cardinality(Turns) - 1) - 0 + 1
      BY <2>1, <1>4, FS_Interval
    <2> QED
      BY <2>2, <1>3, BoundsAssumption
  <1> QED
    BY <1>2, <1>3, <1>4, <1>5

\* A set of turns can be counted, and a larger one has no fewer.
LEMMA TurnsCount ==
  ASSUME NEW A \in SUBSET Turns, NEW B \in SUBSET A
  PROVE  /\ IsFiniteSet(A) /\ IsFiniteSet(B)
         /\ Cardinality(A) \in Nat /\ Cardinality(B) \in Nat
         /\ Cardinality(B) <= Cardinality(A) /\ Cardinality(A) <= Cardinality(Turns)
  BY EnoughKeys, FS_Subset, FS_CardinalityType

\* What a thread's state becomes when its query is done.
LEMMA FinishedIs ==
  ASSUME NEW b \in Benches
  PROVE  LET f == Finished(b)
         IN /\ f \in Benches /\ f.at = "next" /\ f.query = "none" /\ f.key = 0
            /\ f.counter = b.counter /\ f.current_query = b.current_query + 1
            /\ f.max_records = IF b.query = "insert" THEN b.max_records + 1 ELSE b.max_records
  <1> DEFINE m == IF b.query = "insert" THEN b.max_records + 1 ELSE b.max_records
             q == b.current_query + 1
             c == [b EXCEPT !.at = "next", !.query = "none", !.key = 0]
             f == [c EXCEPT !.value = NoValue, !.current_query = q, !.max_records = m]
  <1>1. Finished(b) = f
    BY DEF Finished
  <1>2. m \in Nat /\ q \in Nat
    BY DEF Benches
  <1> HIDE DEF m, q
  <1>3. /\ c \in Benches /\ c.at = "next" /\ c.query = "none" /\ c.key = 0
        /\ c.counter = b.counter
    BY DEF Benches, Places, Queries
  <1> HIDE DEF c
  <1>4. /\ f \in Benches /\ f.at = c.at /\ f.query = c.query /\ f.key = c.key
        /\ f.counter = c.counter /\ f.current_query = q /\ f.max_records = m
    BY <1>2, <1>3 DEF Benches
  <1> QED
    BY <1>1, <1>3, <1>4 DEF m, q

\* At the start there are the prepared records and no other.
LEMMA InitKeys == Init => KeyInv
  <1> SUFFICES ASSUME Init PROVE KeyInv
    OBVIOUS
  <1>1. \A k \in Prepared : k \in Record /\ Prepare(k) \in Data /\ Prepare(k) # NoValue
    <2>1. \A k \in Prepared : k \in Record
      BY EnoughKeys, BoundsAssumption DEF Prepared
    <2> QED
      BY <2>1, NoneAssumption DEF Data
  <1>2. Shape
    <2>1. Off \in Benches
      BY BoundsAssumption DEF Off, Benches, Places, Queries
    <2> QED
      BY <1>1, <2>1, BoundsAssumption DEF Init, Shape
  <1>3. Resting /\ \A t \in Thread : BenchInv(t)
    BY BoundsAssumption DEF Init, Resting, BenchInv, Off
  <1>4. KeysApart
    BY <1>3, EnoughKeys, BoundsAssumption DEF Init, KeysApart, Off
  <1>5. OneOpen
    BY DEF Init, OneOpen, Off
  <1>6. Records
    <2>1. \A k \in Record : k >= MAX_RECORDS => store[k] = NoValue
      BY EnoughKeys, BoundsAssumption DEF Init, Prepared
    <2> QED
      BY <2>1, <1>1, <1>3 DEF Init, Records, Off
  <1> QED
    BY <1>2, <1>3, <1>4, <1>5, <1>6 DEF KeyInv

\* Steps of the server and the end of the program change nothing of it.
LEMMA Unmoved ==
  ASSUME KeyInv, UNCHANGED <<backend, g_next_insert_key, store, bench>>,
         program' = program \/ program' = [program EXCEPT !.up = FALSE]
  PROVE  KeyInv'
  <1>1. program'.round = program.round /\ program' \in [up : BOOLEAN, round : 0 .. Rounds]
    BY DEF KeyInv, Shape
  <1> QED
    BY <1>1 DEF KeyInv, Shape, BenchInv, KeysApart, Taken, Resting, OneOpen, Records, Inserting

\* All threads begin, and the counter is set back: no key above the prepared ones
\* has a record, but for tmdb after the first round.
LEMMA RoundStarts ==
  ASSUME KeyInv, StartRound
  PROVE  KeyInv'
  <1> USE DEF KeyInv
  <1> DEFINE b == [Off EXCEPT !.at = "start"]
  <1>1. b \in Benches /\ b = [at |-> "start", query |-> "none", key |-> 0, value |-> NoValue,
                              counter |-> 0, max_records |-> MAX_RECORDS, current_query |-> 0]
    BY BoundsAssumption DEF Off, Benches, Places, Queries
  <1>2. /\ bench' = [t \in Thread |-> b] /\ g_next_insert_key' = MAX_RECORDS
        /\ Resting /\ UNCHANGED <<backend, store>>
        /\ program' = [program EXCEPT !.round = @ + 1] /\ program.round < Rounds
    BY DEF StartRound, At, Resting
  <1> HIDE DEF b
  <1>3. /\ program'.round = program.round + 1 /\ program.round \in Nat
        /\ program' \in [up : BOOLEAN, round : 0 .. Rounds]
    BY <1>2, BoundsAssumption DEF Shape
  <1>4. Shape'
    BY <1>1, <1>2, <1>3, BoundsAssumption DEF Shape
  <1>5. \A t \in Thread : BenchInv(t)'
    BY <1>1, <1>2, <1>3, BoundsAssumption DEF BenchInv
  <1>6. KeysApart'
    <2>1. Cardinality(Taken') \in Nat
      BY TurnsCount DEF Taken
    <2> QED
      BY <2>1, <1>1, <1>2, EnoughKeys, BoundsAssumption DEF KeysApart, Resting
  <1>7. OneOpen'
    BY <1>1, <1>2 DEF OneOpen
  <1>8. Records'
    <2>1. backend.kind # "tmdb" \/ program'.round <= 1 => backend.kind # "tmdb" \/ program.round = 0
      BY <1>3
    <2>2. backend.kind # "tmdb" \/ program'.round <= 1 =>
            \A k \in Record : k >= MAX_RECORDS => store[k] = NoValue
      BY <2>1, <1>2 DEF Records
    <2>3. \A k \in MAX_RECORDS .. MAX_RECORDS - 1 : FALSE
      BY BoundsAssumption
    <2>4. program'.round # 0
      BY <1>3
    <2>5. Resting' => \A t \in Thread : FALSE
      BY <1>1, <1>2 DEF Resting
    <2> QED
      BY <2>1, <2>2, <2>3, <2>4, <2>5, <1>1, <1>2 DEF Records
  <1> QED
    BY <1>4, <1>5, <1>6, <1>7, <1>8

\* The clean-up leaves the prepared records, and no others but with tmdb.
LEMMA RoundEnds ==
  ASSUME KeyInv, CleanUp
  PROVE  KeyInv'
  <1> USE DEF KeyInv
  <1>1. /\ bench' = [t \in Thread |-> Off]
        /\ store' = [k \in Record |-> IF k \in Inserted THEN NoValue ELSE store[k]]
        /\ \A t \in Thread : bench[t].at = "closed"
        /\ UNCHANGED <<backend, program, g_next_insert_key>>
    BY DEF CleanUp, At, rest
  <1>2. Off \in Benches
    BY BoundsAssumption DEF Off, Benches, Places, Queries
  <1>3. Shape'
    BY <1>1, <1>2 DEF Shape
  <1>4. Resting' /\ \A t \in Thread : BenchInv(t)'
    BY <1>1, BoundsAssumption DEF Resting, BenchInv, Off
  <1>5. KeysApart' /\ OneOpen'
    BY <1>1, <1>4 DEF KeysApart, OneOpen, Off
  <1>6. \A k \in Prepared : k \in Record /\ k \notin Inserted
    BY EnoughKeys, BoundsAssumption DEF Prepared, Inserted, Shape, BackendKinds
  <1>7. backend.kind # "tmdb" => \A k \in Record : k >= MAX_RECORDS => store'[k] = NoValue
    <2> SUFFICES ASSUME backend.kind # "tmdb", NEW k \in Record, k >= MAX_RECORDS
                 PROVE  k \in Inserted \/ store[k] = NoValue
      BY <1>1
    <2>1. CASE backend.kind = "sql"
      BY <2>1 DEF Inserted
    <2>2. CASE backend.kind = "leveldb"
      <3>1. k \in Nat /\ g_next_insert_key \in Nat
        BY EnoughKeys, BoundsAssumption DEF Shape
      <3>2. CASE k < g_next_insert_key
        BY <2>2, <3>1, <3>2, BoundsAssumption DEF Inserted
      <3>3. CASE k >= g_next_insert_key
        BY <2>2, <3>3 DEF Records
      <3> QED
        BY <3>1, <3>2, <3>3
    <2> QED
      BY <2>1, <2>2 DEF Shape, BackendKinds
  <1>8. Records'
    <2>1. \A k \in Prepared : store'[k] # NoValue
      BY <1>1, <1>6 DEF Records
    <2>2. program.round = 0 => \A t \in Thread : FALSE
      BY <1>1 DEF BenchInv
    <2>3. backend.kind = "tmdb" => Inserted = {} /\ \A k \in Record : store'[k] = store[k]
      BY <1>1 DEF Inserted
    <2>4. backend.kind # "tmdb" \/ program.round <= 1 =>
            \A k \in Record : k >= g_next_insert_key => store'[k] = NoValue
      BY <1>1 DEF Records
    <2>5. backend.kind # "tmdb" \/ program.round = 0 =>
            \A k \in Record : k >= MAX_RECORDS => store'[k] = NoValue
      <3>1. CASE backend.kind # "tmdb"
        BY <3>1, <1>7
      <3>2. CASE backend.kind = "tmdb" /\ program.round = 0
        <4>1. Resting
          BY <2>2, <3>2 DEF Resting
        <4> QED
          BY <4>1, <2>3, <3>2 DEF Records
      <3> QED
        BY <3>1, <3>2
    <2> QED
      BY <2>1, <2>4, <2>5, <1>1, <1>4 DEF Records, Off
  <1> QED
    BY <1>3, <1>4, <1>5, <1>8

\* What a step of one thread, which takes no key, leaves of the keys: it goes on
\* with its insert, or is done with it, or inserts nothing.
LEMMA KeysStay ==
  ASSUME KeyInv, NEW t \in Thread, NEW b \in Benches, bench' = [bench EXCEPT ![t] = b],
         UNCHANGED <<backend, program, g_next_insert_key>>,
         bench[t].at # "off", b.at # "off", b.current_query \in 0 .. MAX_QUERIES,
         \/ b.query = bench[t].query /\ b.key = bench[t].key
            /\ b.current_query = bench[t].current_query
         \/ bench[t].query # "insert" /\ b.query # "insert"
            /\ bench[t].current_query <= b.current_query
         \/ b.query # "insert" /\ b.current_query = bench[t].current_query + 1
  PROVE  /\ KeysApart' /\ ~Resting'
         /\ \A u \in Thread \ {t} : bench'[u] = bench[u] /\ BenchInv(u)'
         /\ bench'[t] = b
  <1> USE DEF KeyInv
  <1>1. bench'[t] = b /\ \A u \in Thread \ {t} : bench'[u] = bench[u]
    BY DEF Shape
  <1>2. \A u \in Thread \ {t} : BenchInv(u)'
    BY <1>1 DEF BenchInv
  <1>3. ~Resting /\ ~Resting'
    BY <1>1 DEF Resting
  <1>4. bench[t].current_query \in Nat /\ b.current_query \in Nat
    BY DEF Shape, Benches
  <1>5. Taken \subseteq Taken' /\ Taken' \subseteq Turns
    <2> SUFFICES ASSUME NEW x \in Taken PROVE x \in Taken'
      BY DEF Taken
    <2>1. x \in Turns /\ x[1] \in Thread /\ x[2] \in Nat
      BY DEF Taken, Turns
    <2>2. CASE x[1] # t
      BY <2>1, <2>2, <1>1 DEF Taken
    <2>3. CASE x[1] = t
      <3>1. \/ x[2] < bench[t].current_query
            \/ x[2] = bench[t].current_query /\ bench[t].query = "insert"
        BY <2>3 DEF Taken
      <3>2. \/ x[2] < b.current_query
            \/ x[2] = b.current_query /\ b.query = "insert"
        BY <2>1, <3>1, <1>4
      <3> QED
        BY <2>1, <2>3, <3>2, <1>1 DEF Taken
    <2> QED
      BY <2>2, <2>3
  <1>6. /\ Cardinality(Taken) <= Cardinality(Taken')
        /\ Cardinality(Taken) \in Nat /\ Cardinality(Taken') \in Nat
    BY <1>5, TurnsCount
  <1>7. KeysApart'
    <2>1. g_next_insert_key - MAX_RECORDS <= Cardinality(Taken')
      BY <1>3, <1>6, BoundsAssumption DEF KeysApart, Shape
    <2>2. \A u \in Thread : bench'[u].at # "off"
      BY <1>1, <1>3 DEF KeysApart
    <2>3. \A u, v \in Thread :
            u # v /\ bench'[u].query = "insert" /\ bench'[v].query = "insert"
              => bench'[u].key # bench'[v].key
      BY <1>1 DEF KeysApart
    <2> QED
      BY <2>1, <2>2, <2>3 DEF KeysApart
  <1> QED
    BY <1>1, <1>2, <1>3, <1>7

\* Steps of one thread that neither take a key nor write to the database.
LEMMA Stays ==
  ASSUME KeyInv, NEW t \in Thread, NEW b \in Benches, bench' = [bench EXCEPT ![t] = b],
         UNCHANGED <<backend, program, g_next_insert_key, store>>,
         bench[t].at # "off", b.at # "off", BenchInv(t)', OneOpen',
         \/ b.query = bench[t].query /\ b.key = bench[t].key
            /\ b.current_query = bench[t].current_query
         \/ bench[t].query # "insert" /\ b.query # "insert"
            /\ bench[t].current_query <= b.current_query
         \/ b.query # "insert" /\ b.current_query = bench[t].current_query + 1,
         bench[t].query = "insert" /\ b.query # "insert" => store[bench[t].key] # NoValue,
         b.at = "store" => /\ bench[t].at = "set" /\ bench[t].query = "insert"
                           /\ b.key = bench[t].key /\ backend.kind = "tmdb",
         b.at = "set" => b.query = "read"
  PROVE  KeyInv'
  <1> USE DEF KeyInv
  <1>1. bench'[t] = b /\ b.current_query \in 0 .. MAX_QUERIES
    BY DEF Shape, BenchInv
  <1>2. KeysApart' /\ ~Resting' /\ \A u \in Thread \ {t} : bench'[u] = bench[u] /\ BenchInv(u)'
    BY <1>1, KeysStay
  <1>3. Shape'
    BY DEF Shape
  <1>4. Records'
    <2>1. \A k \in Prepared : store'[k] # NoValue
      BY DEF Records
    <2>2. ASSUME NEW k \in MAX_RECORDS .. g_next_insert_key - 1
          PROVE  store'[k] # NoValue \/ \E u \in Thread : Inserting(u, k)'
      <3> SUFFICES ASSUME store[k] = NoValue PROVE \E u \in Thread : Inserting(u, k)'
        OBVIOUS
      <3>1. PICK u \in Thread : Inserting(u, k)
        BY DEF Records, Resting
      <3>2. CASE u = t
        BY <3>1, <3>2, <1>1 DEF Inserting
      <3>3. CASE u # t
        BY <3>1, <3>3, <1>2 DEF Inserting
      <3> QED
        BY <3>2, <3>3
    <2>3. \A u \in Thread : backend.kind # "tmdb" \/ program.round <= 1 =>
            /\ bench'[u].at = "store" => store[bench'[u].key] = NoValue
            /\ bench'[u].at = "set" /\ bench'[u].query = "insert" /\ backend.kind = "tmdb"
                 => store[bench'[u].key] = NoValue
      BY <1>1, <1>2 DEF Records
    <2>4. \A u \in Thread :
            bench'[u].at = "set" /\ bench'[u].query = "insert" /\ backend.kind # "tmdb"
              => store[bench'[u].key] # NoValue
      BY <1>1, <1>2 DEF Records
    <2> QED
      BY <2>1, <2>2, <2>3, <2>4, <1>2 DEF Records
  <1> QED
    BY <1>1, <1>2, <1>3, <1>4

\* BackendFactory opens LevelDB only when no other thread has it open.
LEMMA OpenStays ==
  ASSUME KeyInv, NEW t \in Thread, OpenBackend(t)
  PROVE  KeyInv'
  <1>1. CASE Terminate
    BY <1>1, Unmoved DEF Terminate
  <1>2. CASE ~Terminate
    <2> DEFINE b == [bench[t] EXCEPT !.at = "next"]
    <2>1. /\ bench[t].at = "start" /\ bench' = [bench EXCEPT ![t] = b]
          /\ UNCHANGED <<backend, program, g_next_insert_key, store>>
          /\ backend.kind = "leveldb" => \A u \in Thread : bench[u].at \in {"off", "start", "closed"}
      BY <1>2 DEF OpenBackend, At, Become, rest
    <2>2. bench[t] \in Benches /\ bench'[t] = b
      BY <2>1 DEF KeyInv, Shape
    <2>3. /\ b \in Benches /\ b.at = "next" /\ b.query = bench[t].query /\ b.key = bench[t].key
          /\ b.counter = bench[t].counter /\ b.max_records = bench[t].max_records
          /\ b.current_query = bench[t].current_query
      BY <2>2 DEF Benches, Places
    <2> HIDE DEF b
    <2>4. BenchInv(t)'
      BY <2>1, <2>2, <2>3 DEF KeyInv, BenchInv
    <2>5. OneOpen'
      BY <2>1, <2>2 DEF OneOpen, KeyInv, Shape
    <2> QED
      BY <2>1, <2>3, <2>4, <2>5, Stays
  <1> QED
    BY <1>1, <1>2

\* A thread that has done its queries closes its backend.
LEMMA CloseStays ==
  ASSUME KeyInv, NEW t \in Thread, CloseBackend(t)
  PROVE  KeyInv'
  <1> DEFINE b == [bench[t] EXCEPT !.at = "closed"]
  <1>1. /\ bench[t].at = "next" /\ bench' = [bench EXCEPT ![t] = b]
        /\ UNCHANGED <<backend, program, g_next_insert_key, store>>
    BY DEF CloseBackend, At, Become, rest
  <1>2. bench[t] \in Benches /\ bench'[t] = b
    BY <1>1 DEF KeyInv, Shape
  <1>3. /\ b \in Benches /\ b.at = "closed" /\ b.query = bench[t].query /\ b.key = bench[t].key
        /\ b.counter = bench[t].counter /\ b.max_records = bench[t].max_records
        /\ b.current_query = bench[t].current_query
    BY <1>2 DEF Benches, Places
  <1> HIDE DEF b
  <1>4. BenchInv(t)'
    BY <1>1, <1>2, <1>3 DEF KeyInv, BenchInv
  <1>5. OneOpen'
    BY <1>1, <1>2, <1>3 DEF OneOpen, KeyInv, Shape
  <1> QED
    BY <1>1, <1>3, <1>4, <1>5, Stays

\* A thread reads a key below the counter.
LEMMA ReadStays ==
  ASSUME KeyInv, NEW t \in Thread, NEW k \in Readable(t), Read(t, k)
  PROVE  KeyInv'
  <1> DEFINE b == [bench[t] EXCEPT !.at = "get", !.query = "read", !.key = k]
  <1>1. /\ bench[t].at = "next" /\ bench' = [bench EXCEPT ![t] = b]
        /\ bench[t].current_query < MAX_QUERIES
        /\ UNCHANGED <<backend, program, g_next_insert_key, store>>
    BY DEF Read, At, Become, rest
  <1>2. bench[t] \in Benches /\ bench'[t] = b /\ BenchInv(t)
    BY <1>1 DEF KeyInv, Shape
  <1>3. k \in Nat /\ k < bench[t].max_records /\ (backend.grows \/ k \in Prepared)
    BY <1>2, BoundsAssumption DEF Readable, Prepared, Benches, BenchInv
  <1>4. /\ b \in Benches /\ b.at = "get" /\ b.query = "read" /\ b.key = k
        /\ b.counter = bench[t].counter /\ b.max_records = bench[t].max_records
        /\ b.current_query = bench[t].current_query
    BY <1>2, <1>3 DEF Benches, Places, Queries
  <1> HIDE DEF b
  <1>5. bench[t].query = "none"
    BY <1>1, <1>2 DEF BenchInv
  <1>6. BenchInv(t)'
    BY <1>1, <1>2, <1>3, <1>4 DEF BenchInv
  <1>7. OneOpen'
    BY <1>1, <1>2, <1>4 DEF OneOpen, KeyInv, Shape
  <1> QED
    <2>1. bench[t].current_query <= b.current_query
      BY <1>2, <1>4 DEF Benches
    <2>2. bench[t].query # "insert" /\ b.query # "insert" /\ b.query = "read"
      BY <1>4, <1>5
    <2> QED
      BY <2>1, <2>2, <1>1, <1>4, <1>6, <1>7, Stays

\* A query that is done counts.
LEMMA FinishedCounts ==
  ASSUME KeyInv, NEW t \in Thread, bench[t].query # "none",
         UNCHANGED <<backend, program, g_next_insert_key>>,
         NEW b \in Benches, bench' = [bench EXCEPT ![t] = b],
         b.at = "next", b.query = "none", b.key = 0,
         b.counter \in Nat, b.counter <= bench[t].counter + 1,
         b.current_query = bench[t].current_query + 1,
         b.max_records = IF bench[t].query = "insert" THEN bench[t].max_records + 1
                                                      ELSE bench[t].max_records
  PROVE  BenchInv(t)' /\ OneOpen'
  <1>1. bench'[t] = b /\ bench[t] \in Benches /\ BenchInv(t)
    BY DEF KeyInv, Shape
  <1>2. /\ bench[t].current_query \in Nat /\ bench[t].max_records \in Nat
        /\ bench[t].counter \in Nat /\ bench[t].key \in Nat /\ g_next_insert_key \in Nat
    BY <1>1 DEF Benches, KeyInv, Shape
  <1>3. bench[t].at \notin {"off", "start", "closed"}
    BY <1>1 DEF BenchInv
  <1>4. b.max_records <= g_next_insert_key
    BY <1>1, <1>2, <1>3 DEF BenchInv
  <1>5. b.max_records \in MAX_RECORDS .. MAX_RECORDS + b.current_query
    BY <1>1, <1>2, BoundsAssumption DEF BenchInv
  <1>6. b.current_query \in 0 .. MAX_QUERIES /\ b.counter <= b.current_query
    BY <1>1, <1>2, BoundsAssumption DEF BenchInv
  <1>7. BenchInv(t)'
    BY <1>1, <1>3, <1>4, <1>5, <1>6 DEF BenchInv
  <1>8. OneOpen'
    BY <1>1, <1>3 DEF OneOpen, KeyInv, Shape
  <1> QED
    BY <1>7, <1>8

\* getKV answers: a hit is the end of the query, a miss leads to the database.
LEMMA AnswerStays ==
  ASSUME KeyInv, NEW t \in Thread, CacheAnswers(t)
  PROVE  KeyInv'
  <1>1. /\ bench[t].at = "get" /\ bench[t] \in Benches /\ BenchInv(t)
        /\ UNCHANGED <<backend, program, g_next_insert_key, store>>
    BY DEF CacheAnswers, At, rest, KeyInv, Shape
  <1>2. bench[t].query = "read"
    BY <1>1 DEF BenchInv
  <1>3. CASE answer[t] # NoValue
    <2> DEFINE b == Finished(bench[t])
    <2>1. bench' = [bench EXCEPT ![t] = b]
      BY <1>3 DEF CacheAnswers, Become
    <2>2. /\ b \in Benches /\ b.at = "next" /\ b.query = "none" /\ b.key = 0
          /\ b.counter = bench[t].counter /\ b.current_query = bench[t].current_query + 1
          /\ b.max_records = bench[t].max_records
      BY <1>1, <1>2, FinishedIs
    <2> HIDE DEF b
    <2>3. b.counter \in Nat /\ b.counter <= bench[t].counter + 1
      BY <2>2 DEF Benches
    <2>4. BenchInv(t)' /\ OneOpen'
      BY <2>1, <2>2, <2>3, <1>1, <1>2, FinishedCounts
    <2> QED
      BY <2>1, <2>2, <2>4, <1>1, <1>2, Stays
  <1>4. CASE answer[t] = NoValue
    <2> DEFINE b == [bench[t] EXCEPT !.at = "fetch"]
    <2>1. bench' = [bench EXCEPT ![t] = b]
      BY <1>4 DEF CacheAnswers, Become
    <2>2. bench'[t] = b
      BY <2>1 DEF KeyInv, Shape
    <2>3. /\ b \in Benches /\ b.at = "fetch" /\ b.query = bench[t].query /\ b.key = bench[t].key
          /\ b.counter = bench[t].counter /\ b.max_records = bench[t].max_records
          /\ b.current_query = bench[t].current_query
      BY <1>1 DEF Benches, Places
    <2> HIDE DEF b
    <2>4. BenchInv(t)'
      BY <1>1, <1>2, <2>2, <2>3 DEF BenchInv
    <2>5. OneOpen'
      BY <1>1, <2>1, <2>2, <2>3 DEF OneOpen, KeyInv, Shape
    <2> QED
      BY <1>1, <1>2, <2>1, <2>3, <2>4, <2>5, Stays
  <1> QED
    BY <1>3, <1>4

\* A read of the database finds a record, or ends the program.
LEMMA FetchStays ==
  ASSUME KeyInv, NEW t \in Thread, Fetch(t)
  PROVE  KeyInv'
  <1>1. CASE Terminate
    BY <1>1, Unmoved DEF Terminate
  <1>2. CASE ~Terminate
    <2> DEFINE v == store[bench[t].key]
               b == [bench[t] EXCEPT !.at = "set", !.value = v]
    <2>1. /\ bench[t].at = "fetch" /\ bench' = [bench EXCEPT ![t] = b] /\ v # NoValue
          /\ UNCHANGED <<backend, program, g_next_insert_key, store>>
      BY <1>2 DEF Fetch, At, Become, rest
    <2>2. bench[t] \in Benches /\ bench'[t] = b /\ BenchInv(t)
      BY <2>1 DEF KeyInv, Shape
    <2>3. bench[t].query = "read" /\ bench[t].key \in Record
      <3>1. bench[t].query = "read" /\ bench[t].key < g_next_insert_key
        BY <2>1, <2>2 DEF BenchInv, Benches, KeyInv, Shape
      <3>2. g_next_insert_key - MAX_RECORDS <= Cardinality(Turns)
        BY DEF KeyInv, KeysApart
      <3> QED
        BY <3>1, <3>2, <2>2, EnoughKeys, BoundsAssumption DEF Benches, KeyInv, Shape
    <2>4. v \in Data
      BY <2>1, <2>3 DEF KeyInv, Shape
    <2> HIDE DEF v
    <2>5. /\ b \in Benches /\ b.at = "set" /\ b.query = bench[t].query /\ b.key = bench[t].key
          /\ b.counter = bench[t].counter /\ b.max_records = bench[t].max_records
          /\ b.current_query = bench[t].current_query /\ b.value # NoValue
      BY <2>1, <2>2, <2>4 DEF Benches, Places
    <2> HIDE DEF b
    <2>6. BenchInv(t)'
      BY <2>1, <2>2, <2>3, <2>5 DEF BenchInv
    <2>7. OneOpen'
      BY <2>1, <2>2, <2>5 DEF OneOpen, KeyInv, Shape
    <2> QED
      BY <2>1, <2>3, <2>5, <2>6, <2>7, Stays
  <1> QED
    BY <1>1, <1>2

\* setKV is the last step of a read and of LevelDB's insert; tmdb inserts after it.
LEMMA SetStays ==
  ASSUME KeyInv, NEW t \in Thread, SetCache(t)
  PROVE  KeyInv'
  <1>1. /\ bench[t].at = "set" /\ bench[t] \in Benches /\ BenchInv(t)
        /\ UNCHANGED <<backend, program, g_next_insert_key, store>>
    BY DEF SetCache, At, rest, KeyInv, Shape
  <1>2. CASE bench[t].query = "insert" /\ backend.kind = "tmdb"
    <2> DEFINE b == [bench[t] EXCEPT !.at = "store"]
    <2>1. bench' = [bench EXCEPT ![t] = b]
      BY <1>2 DEF SetCache, Become
    <2>2. bench'[t] = b
      BY <2>1 DEF KeyInv, Shape
    <2>3. /\ b \in Benches /\ b.at = "store" /\ b.query = bench[t].query /\ b.key = bench[t].key
          /\ b.counter = bench[t].counter /\ b.max_records = bench[t].max_records
          /\ b.current_query = bench[t].current_query /\ b.value = bench[t].value
      BY <1>1 DEF Benches, Places
    <2> HIDE DEF b
    <2>4. BenchInv(t)'
      BY <1>1, <1>2, <2>2, <2>3 DEF BenchInv
    <2>5. OneOpen'
      BY <1>1, <2>1, <2>2, <2>3 DEF OneOpen, KeyInv, Shape
    <2> QED
      BY <1>1, <1>2, <2>1, <2>3, <2>4, <2>5, Stays
  <1>3. CASE ~(bench[t].query = "insert" /\ backend.kind = "tmdb")
    <2> DEFINE b == Finished(bench[t])
    <2>1. bench' = [bench EXCEPT ![t] = b]
      BY <1>3 DEF SetCache, Become
    <2>2. /\ b \in Benches /\ b.at = "next" /\ b.query = "none" /\ b.key = 0
          /\ b.counter = bench[t].counter /\ b.current_query = bench[t].current_query + 1
          /\ b.max_records = IF bench[t].query = "insert" THEN bench[t].max_records + 1
                                                          ELSE bench[t].max_records
      BY <1>1, FinishedIs
    <2> HIDE DEF b
    <2>3. b.counter \in Nat /\ b.counter <= bench[t].counter + 1 /\ bench[t].query # "none"
      BY <1>1, <2>2 DEF Benches, BenchInv
    <2>4. BenchInv(t)' /\ OneOpen'
      BY <2>1, <2>2, <2>3, <1>1, FinishedCounts
    <2>5. bench[t].query = "insert" => store[bench[t].key] # NoValue
      BY <1>1, <1>3 DEF KeyInv, Records
    <2> QED
      BY <2>1, <2>2, <2>4, <2>5, <1>1, Stays
  <1> QED
    BY <1>2, <1>3

\* A thread takes the next key: there is one, and it has no record and nobody else
\* has it.
LEMMA ReserveTakes ==
  ASSUME KeyInv, NEW t \in Thread, Reserve(t)
  PROVE  KeyInv'
  <1> USE DEF KeyInv
  <1> DEFINE g  == g_next_insert_key
             v  == Draw(program.round, t, bench[t].current_query)
             at == IF backend.kind = "tmdb" THEN "set" ELSE "store"
             b  == [bench[t] EXCEPT !.query = "insert", !.key = g, !.value = v, !.at = at]
  <1>1. /\ bench[t].at = "next" /\ bench' = [bench EXCEPT ![t] = b]
        /\ bench[t].current_query < MAX_QUERIES
        /\ g_next_insert_key' = g + 1
        /\ UNCHANGED <<backend, program, store>>
    BY DEF Reserve, At, Become, rest
  <1>2. /\ bench[t] \in Benches /\ bench'[t] = b /\ BenchInv(t)
        /\ \A u \in Thread \ {t} : bench'[u] = bench[u]
    BY <1>1 DEF Shape
  <1>3. bench[t].query = "none" /\ g \in Nat /\ program.round \in 1 .. Rounds
    BY <1>1, <1>2, BoundsAssumption DEF BenchInv, Shape
  <1>4. v \in Data /\ v # NoValue
    <2>1. bench[t].current_query \in 0 .. MAX_QUERIES - 1
      BY <1>1, <1>2, BoundsAssumption DEF BenchInv
    <2> QED
      BY <2>1, <1>3, NoneAssumption DEF Data
  <1>5. at \in {"set", "store"}
    OBVIOUS
  <1> HIDE DEF v, at
  <1>6. /\ b \in Benches /\ b.at = at /\ b.query = "insert" /\ b.key = g /\ b.value = v
        /\ b.counter = bench[t].counter /\ b.max_records = bench[t].max_records
        /\ b.current_query = bench[t].current_query
    BY <1>2, <1>3, <1>4, <1>5 DEF Benches, Places, Queries
  <1> HIDE DEF b
  <1>7. Shape'
    BY <1>1, <1>3, <1>6, BoundsAssumption DEF Shape
  <1>8. \A u \in Thread : BenchInv(u)'
    <2>1. BenchInv(t)'
      BY <1>1, <1>2, <1>3, <1>4, <1>5, <1>6, BoundsAssumption DEF BenchInv, Benches
    <2>2. ASSUME NEW u \in Thread \ {t} PROVE BenchInv(u)'
      <3>1. BenchInv(u) /\ bench[u] \in Benches /\ bench'[u] = bench[u]
        BY <1>2 DEF Shape
      <3>2. bench[u].max_records \in Nat /\ bench[u].key \in Nat
        BY <3>1 DEF Benches
      <3> QED
        BY <3>1, <3>2, <1>1, <1>3 DEF BenchInv
    <2> QED
      BY <2>1, <2>2
  <1>9. ~Resting /\ ~Resting'
    BY <1>1, <1>2, <1>5, <1>6 DEF Resting
  <1>10. KeysApart' /\ g \in Record
    <2> DEFINE x == <<t, bench[t].current_query>>
    <2>1. x \in Turns /\ x \notin Taken
      BY <1>1, <1>2, <1>3, BoundsAssumption DEF Turns, Taken, BenchInv
    <2>2. Taken' = Taken \cup {x}
      <3>1. \A y \in Turns : y[1] \in Thread /\ y[2] \in Nat /\ y = <<y[1], y[2]>>
        BY DEF Turns
      <3>2. \A y \in Turns : y[1] # t => (y \in Taken' <=> y \in Taken) /\ y # x
        BY <3>1, <1>2 DEF Taken
      <3>3. \A y \in Turns : y[1] = t => (y \in Taken' <=> y \in Taken \/ y = x)
        BY <3>1, <1>2, <1>3, <1>6 DEF Taken
      <3> QED
        BY <2>1, <3>2, <3>3 DEF Taken
    <2>3. IsFiniteSet(Taken) /\ Cardinality(Taken) \in Nat
      BY TurnsCount DEF Taken
    <2>4. Cardinality(Taken') = Cardinality(Taken) + 1
      BY <2>1, <2>2, <2>3, FS_AddElement
    <2>5. Cardinality(Taken') <= Cardinality(Turns)
      BY TurnsCount DEF Taken
    <2>6. g - MAX_RECORDS <= Cardinality(Taken)
      BY <1>9 DEF KeysApart
    <2>7. /\ g + 1 - MAX_RECORDS <= Cardinality(Taken')
          /\ g + 1 - MAX_RECORDS <= Cardinality(Turns)
      BY <2>3, <2>4, <2>5, <2>6, <1>3, EnoughKeys, BoundsAssumption
    <2>8. \A u, w \in Thread :
            u # w /\ bench'[u].query = "insert" /\ bench'[w].query = "insert"
              => bench'[u].key # bench'[w].key
      <3>1. \A u \in Thread \ {t} : bench'[u].query = "insert" => bench'[u].key # g
        BY <1>2, <1>3 DEF BenchInv, Shape, Benches
      <3> QED
        BY <3>1, <1>2, <1>6 DEF KeysApart
    <2>9. \A u \in Thread : bench'[u].at # "off"
      BY <1>2, <1>5, <1>6, <1>9 DEF KeysApart
    <2>10. g \in Record
      BY <2>7, <1>3, EnoughKeys, BoundsAssumption
    <2>11. /\ g_next_insert_key' - MAX_RECORDS <= Cardinality(Taken')
           /\ g_next_insert_key' - MAX_RECORDS <= Cardinality(Turns)
      BY <2>3, <2>7, <1>1, <1>3, EnoughKeys, BoundsAssumption
    <2> HIDE DEF KeyInv
    <2> QED
      BY <2>8, <2>9, <2>10, <2>11 DEF KeysApart
  <1>11. OneOpen'
    BY <1>1, <1>2 DEF OneOpen, Shape
  <1>12. Records'
    <2>1. \A k \in Prepared : store'[k] # NoValue
      BY <1>1 DEF Records
    <2>2. ASSUME NEW k \in MAX_RECORDS .. g_next_insert_key' - 1
          PROVE  store'[k] # NoValue \/ \E u \in Thread : Inserting(u, k)'
      <3>1. CASE k = g
        BY <3>1, <1>2, <1>6 DEF Inserting
      <3>2. CASE k # g
        <4>1. k \in MAX_RECORDS .. g - 1
          BY <3>2, <1>1, <1>3, BoundsAssumption
        <4>2. store[k] # NoValue \/ \E u \in Thread : Inserting(u, k)
          BY <4>1, <1>9 DEF Records
        <4>3. \A u \in Thread : Inserting(u, k) => Inserting(u, k)'
          BY <1>2, <1>3 DEF Inserting
        <4> QED
          BY <4>2, <4>3, <1>1
      <3> QED
        BY <3>1, <3>2
    <2>3. backend.kind # "tmdb" \/ program.round <= 1 =>
            /\ \A k \in Record : k >= g + 1 => store[k] = NoValue
            /\ store[g] = NoValue
      BY <1>3, <1>10, EnoughKeys, BoundsAssumption DEF Records
    <2>4. \A u \in Thread : backend.kind # "tmdb" \/ program.round <= 1 =>
            /\ bench'[u].at = "store" => store[bench'[u].key] = NoValue
            /\ bench'[u].at = "set" /\ bench'[u].query = "insert" /\ backend.kind = "tmdb"
                 => store[bench'[u].key] = NoValue
      BY <2>3, <1>2, <1>6 DEF Records
    <2>5. \A u \in Thread :
            bench'[u].at = "set" /\ bench'[u].query = "insert" /\ backend.kind # "tmdb"
              => store[bench'[u].key] # NoValue
      BY <1>2, <1>6 DEF Records, at
    <2> QED
      BY <2>1, <2>2, <2>3, <2>4, <2>5, <1>1, <1>9 DEF Records
  <1> QED
    BY <1>7, <1>8, <1>10, <1>11, <1>12

\* What a write of a thread's record leaves of the records: the key was reserved.
LEMMA InsertStays ==
  ASSUME KeyInv, NEW t \in Thread, NEW b \in Benches, NEW v \in Data,
         bench[t].at = "store", bench' = [bench EXCEPT ![t] = b],
         store' = [store EXCEPT ![bench[t].key] = v]
           \/ (store' = store /\ store[bench[t].key] # NoValue),
         UNCHANGED <<backend, program, g_next_insert_key>>,
         BenchInv(t)', OneOpen',
         \/ /\ b.at = "set" /\ b.query = "insert" /\ b.key = bench[t].key
            /\ b.current_query = bench[t].current_query /\ backend.kind # "tmdb"
         \/ /\ b.at = "next" /\ b.query = "none"
            /\ b.current_query = bench[t].current_query + 1
  PROVE  KeyInv'
  <1> USE DEF KeyInv
  <1>1. PICK key \in Record : /\ key = bench[t].key /\ key >= MAX_RECORDS
                             /\ key < g_next_insert_key
    <2>1. bench[t] \in Benches /\ BenchInv(t)
      BY DEF Shape
    <2>2. /\ bench[t].key \in Nat /\ bench[t].max_records \in Nat
          /\ bench[t].max_records >= MAX_RECORDS /\ bench[t].max_records <= bench[t].key
          /\ bench[t].key < g_next_insert_key
      BY <2>1, BoundsAssumption DEF BenchInv, Benches
    <2>3. g_next_insert_key - MAX_RECORDS <= Cardinality(Turns) /\ g_next_insert_key \in Nat
      BY DEF KeysApart, Shape
    <2> QED
      BY <2>2, <2>3, EnoughKeys, BoundsAssumption
  <1>2. v # NoValue
    BY NoneAssumption
  <1>3. /\ store'[key] # NoValue /\ \A k \in Record \ {key} : store'[k] = store[k]
        /\ store' \in [Record -> Data \cup {NoValue}]
    BY <1>1, <1>2 DEF Shape
  <1>4. /\ bench'[t] = b /\ b.at # "off" /\ bench[t].query = "insert"
        /\ b.current_query \in 0 .. MAX_QUERIES
    BY DEF Shape, BenchInv
  <1>5. KeysApart' /\ ~Resting' /\ \A u \in Thread \ {t} : bench'[u] = bench[u] /\ BenchInv(u)'
    BY <1>4, KeysStay
  <1>6. Shape'
    BY <1>3 DEF Shape
  <1>7. \A u \in Thread \ {t} : bench[u].query = "insert" => bench[u].key # key
    BY <1>1, <1>4 DEF KeysApart
  <1>8. \A u \in Thread \ {t} : bench[u].at = "store" => bench[u].query = "insert"
    BY DEF BenchInv
  <1>9. \A u \in Thread : bench[u].query = "insert" => bench[u].key \in Record
    <2> SUFFICES ASSUME NEW u \in Thread, bench[u].query = "insert" PROVE bench[u].key \in Record
      OBVIOUS
    <2>1. bench[u].key \in Nat /\ bench[u].key < g_next_insert_key
      BY DEF BenchInv, Shape, Benches
    <2>2. g_next_insert_key - MAX_RECORDS <= Cardinality(Turns) /\ g_next_insert_key \in Nat
      BY DEF KeysApart, Shape
    <2> QED
      BY <2>1, <2>2, EnoughKeys, BoundsAssumption
  <1>10. Records'
    <2>1. \A k \in Prepared : store'[k] # NoValue
      <3>1. \A k \in Prepared : k \in Record /\ k # key
        BY <1>1, EnoughKeys, BoundsAssumption DEF Prepared
      <3> QED
        BY <3>1, <1>3 DEF Records
    <2>2. ASSUME NEW k \in MAX_RECORDS .. g_next_insert_key - 1
          PROVE  store'[k] # NoValue \/ \E u \in Thread : Inserting(u, k)'
      <3>1. CASE k = key
        BY <3>1, <1>3
      <3>2. CASE k # key
        <4>1. k \in Record
          <5>1. g_next_insert_key - MAX_RECORDS <= Cardinality(Turns) /\ g_next_insert_key \in Nat
            BY DEF KeysApart, Shape
          <5> QED
            BY <5>1, EnoughKeys, BoundsAssumption
        <4>2. store[k] # NoValue \/ \E u \in Thread : Inserting(u, k)
          BY <1>4 DEF Records, Resting
        <4>3. \A u \in Thread : Inserting(u, k) => u # t /\ Inserting(u, k)'
          BY <3>2, <1>1, <1>5 DEF Inserting
        <4> QED
          BY <3>2, <4>1, <4>2, <4>3, <1>3
      <3> QED
        BY <3>1, <3>2
    <2>3. backend.kind # "tmdb" \/ program.round <= 1 =>
            \A k \in Record : k >= g_next_insert_key => store'[k] = NoValue
      <3>1. \A k \in Record : k >= g_next_insert_key => k # key
        BY <1>1, EnoughKeys, BoundsAssumption DEF Shape
      <3> QED
        BY <3>1, <1>3 DEF Records
    <2>4. \A u \in Thread : backend.kind # "tmdb" \/ program.round <= 1 =>
            /\ bench'[u].at = "store" => store'[bench'[u].key] = NoValue
            /\ bench'[u].at = "set" /\ bench'[u].query = "insert" /\ backend.kind = "tmdb"
                 => store'[bench'[u].key] = NoValue
      BY <1>3, <1>4, <1>5, <1>7, <1>8, <1>9 DEF Records
    <2>5. \A u \in Thread :
            bench'[u].at = "set" /\ bench'[u].query = "insert" /\ backend.kind # "tmdb"
              => store'[bench'[u].key] # NoValue
      BY <1>1, <1>3, <1>4, <1>5, <1>7, <1>9 DEF Records
    <2> QED
      BY <2>1, <2>2, <2>3, <2>4, <2>5, <1>5 DEF Records
  <1> QED
    BY <1>4, <1>5, <1>6, <1>10

\* The database inserts: the key that the thread has taken gets its record.
LEMMA InsertKeeps ==
  ASSUME KeyInv, NEW t \in Thread, InsertRecord(t)
  PROVE  KeyInv'
  <1> DEFINE f == Finished(bench[t])
             key == bench[t].key
  <1>1. /\ bench[t].at = "store" /\ bench[t] \in Benches /\ BenchInv(t)
        /\ bench[t].query = "insert" /\ bench[t].value \in Data
    BY DEF InsertRecord, At, KeyInv, Shape, BenchInv, Benches
  <1>2. /\ f \in Benches /\ f.at = "next" /\ f.query = "none" /\ f.key = 0
        /\ f.counter = bench[t].counter /\ f.current_query = bench[t].current_query + 1
        /\ f.max_records = bench[t].max_records + 1
    BY <1>1, FinishedIs
  <1>3. bench[t].counter \in Nat
    BY <1>1 DEF Benches
  <1>4. CASE backend.kind = "tmdb" /\ InsertTmdb(t)
    <2>1. /\ bench' = [bench EXCEPT ![t] = f]
          /\ UNCHANGED <<backend, program, g_next_insert_key>>
      BY <1>4 DEF InsertTmdb, Become, rest
    <2>2. store' = [store EXCEPT ![key] = IF @ = NoValue THEN bench[t].value ELSE @]
      BY <1>4 DEF InsertTmdb
    <2>3. \/ store' = [store EXCEPT ![key] = bench[t].value]
          \/ store' = store /\ store[key] # NoValue
      BY <2>2 DEF KeyInv, Shape
    <2> HIDE DEF f
    <2>4. f.counter \in Nat /\ f.counter <= bench[t].counter + 1
      BY <1>2, <1>3
    <2>5. BenchInv(t)' /\ OneOpen'
      BY <2>1, <2>4, <1>1, <1>2, FinishedCounts
    <2> QED
      BY <2>1, <2>3, <2>5, <1>1, <1>2, InsertStays
  <1>5. CASE backend.kind = "leveldb" /\ InsertLevelDB(t)
    <2> DEFINE b == [bench[t] EXCEPT !.at = "set"]
    <2>1. /\ bench' = [bench EXCEPT ![t] = b]
          /\ UNCHANGED <<backend, program, g_next_insert_key>>
          /\ store' = [store EXCEPT ![key] = bench[t].value]
      BY <1>5 DEF InsertLevelDB, Become, rest
    <2>2. bench'[t] = b
      BY <2>1 DEF KeyInv, Shape
    <2>3. /\ b \in Benches /\ b.at = "set" /\ b.query = bench[t].query /\ b.key = bench[t].key
          /\ b.counter = bench[t].counter /\ b.max_records = bench[t].max_records
          /\ b.current_query = bench[t].current_query /\ b.value = bench[t].value
      BY <1>1 DEF Benches, Places
    <2> HIDE DEF b
    <2>4. BenchInv(t)'
      BY <1>1, <2>1, <2>2, <2>3 DEF BenchInv
    <2>5. OneOpen'
      BY <1>1, <2>1, <2>2, <2>3 DEF OneOpen, KeyInv, Shape
    <2> QED
      BY <1>1, <1>5, <2>1, <2>3, <2>4, <2>5, InsertStays
  <1>6. CASE backend.kind = "sql" /\ InsertSql(t)
    <2>1. CASE Terminate
      BY <2>1, Unmoved DEF Terminate
    <2>2. CASE ~Terminate
      <3> DEFINE b == [f EXCEPT !.counter = @ + 1]
      <3>1. /\ bench' = [bench EXCEPT ![t] = b]
            /\ UNCHANGED <<backend, program, g_next_insert_key>>
            /\ store' = [store EXCEPT ![key] = bench[t].value]
        BY <1>6, <2>2 DEF InsertSql, Become, rest
      <3> HIDE DEF f
      <3>2. /\ b \in Benches /\ b.at = "next" /\ b.query = "none" /\ b.key = 0
            /\ b.counter = bench[t].counter + 1 /\ b.current_query = bench[t].current_query + 1
            /\ b.max_records = bench[t].max_records + 1
        BY <1>2, <1>3 DEF Benches
      <3> HIDE DEF b
      <3>3. b.counter \in Nat /\ b.counter <= bench[t].counter + 1
        BY <1>3, <3>2
      <3>4. BenchInv(t)' /\ OneOpen'
        BY <3>1, <3>2, <3>3, <1>1, FinishedCounts
      <3> QED
        BY <3>1, <3>2, <3>4, <1>1, InsertStays
    <2> QED
      BY <2>1, <2>2
  <1> QED
    BY <1>4, <1>5, <1>6 DEF InsertRecord

-----------------------------------------------------------------------------
\* Keys, records and queries agree in every round: what is given out once is
\* inserted once, and what is not given out has no record (YCSBBenchmark::insert,
\* main).
THEOREM KeysOfRounds == Spec => []KeyInv
  <1>1. KeyInv /\ [Next]_vars => KeyInv'
    <2> SUFFICES ASSUME KeyInv, [Next]_vars PROVE KeyInv'
      OBVIOUS
    <2>1. CASE ServerStep
      BY <2>1, Unmoved DEF ServerStep, rest
    <2>2. ASSUME NEW t \in Thread, AskCache(t) PROVE KeyInv'
      BY <2>2, Unmoved DEF AskCache, rest
    <2>3. CASE UNCHANGED vars
      BY <2>3, Unmoved DEF vars
    <2> QED
      BY <2>1, <2>2, <2>3, RoundStarts, RoundEnds, OpenStays, CloseStays, ReadStays, AnswerStays,
         FetchStays, ReserveTakes, InsertKeeps, SetStays DEF Next
  <1> QED
    BY <1>1, InitKeys, PTL DEF Spec

\* All state of the program is well-typed; the counter never passes the keys.
THEOREM TypeCorrect == Spec => []TypeOK
  <1>1. KeyInv => TypeOK
    <2> SUFFICES ASSUME KeyInv PROVE TypeOK
      OBVIOUS
    <2> USE DEF KeyInv
    <2>1. g_next_insert_key \in MAX_RECORDS .. Cardinality(Record)
      BY EnoughKeys, BoundsAssumption DEF Shape, KeysApart
    <2>2. ASSUME NEW t \in Thread
          PROVE  /\ bench[t].at \in Places /\ bench[t].value \in Data \cup {NoValue}
                 /\ bench[t].key \in Record /\ bench[t].counter \in 0 .. bench[t].current_query
                 /\ bench[t].max_records \in MAX_RECORDS .. MAX_RECORDS + bench[t].current_query
                 /\ bench[t].current_query \in 0 .. MAX_QUERIES
      <3>1. bench[t] \in Benches /\ BenchInv(t)
        BY DEF Shape
      <3>2. bench[t].at \in Places /\ bench[t].value \in Data \cup {NoValue}
        BY <3>1 DEF Benches
      <3>3. bench[t].counter \in Nat /\ bench[t].key \in Nat
        BY <3>1 DEF Benches
      <3>4. bench[t].key \in Record
        <4>1. bench[t].key = 0 \/ bench[t].key < g_next_insert_key
          BY <3>1, <3>2 DEF BenchInv, Benches, Places, Queries, Shape
        <4> QED
          BY <4>1, <3>3, <2>1, EnoughKeys, BoundsAssumption DEF Shape
      <3> QED
        BY <3>1, <3>2, <3>3, <3>4 DEF BenchInv
    <2> QED
      BY <2>1, <2>2 DEF TypeOK, Shape, Places
  <1> QED
    BY <1>1, KeysOfRounds, PTL

\* An insert finds no record of its key and shares it with nobody: the key was not
\* given out before in the round, and the rounds before left no record of it.
THEOREM NewInserts == Spec => []InsertsAreNew
  <1>1. KeyInv => InsertsAreNew
    BY DEF KeyInv, InsertsAreNew, Records, KeysApart, Inserting
  <1> QED
    BY <1>1, KeysOfRounds, PTL

\* Between rounds of a backend that cleans up there are the prepared records and
\* no others.
THEOREM RoundsLeaveNothing == Spec => []CleanedUp
  <1>1. KeyInv => CleanedUp
    <2> SUFFICES ASSUME KeyInv, backend.kind # "tmdb", Resting, NEW k \in Record
                 PROVE  store[k] = NoValue <=> k \notin Prepared
      BY DEF CleanedUp, Resting
    <2>1. CASE k \in Prepared
      BY <2>1 DEF KeyInv, Records
    <2>2. CASE k \notin Prepared
      BY <2>2, EnoughKeys, BoundsAssumption DEF KeyInv, Records, Prepared
    <2> QED
      BY <2>1, <2>2
  <1> QED
    BY <1>1, KeysOfRounds, PTL

\* A read that finds no record met the insert of another thread: the key was given
\* out, and in LevelDB the thread that had it has closed.
THEOREM ReadsMeetInserts == Spec => []ReadsFind
  <1>1. KeyInv => ReadsFind
    <2> SUFFICES ASSUME KeyInv, NEW t \in Thread, bench[t].at = "fetch",
                        store[bench[t].key] = NoValue
                 PROVE  /\ backend.grows /\ backend.kind # "leveldb"
                        /\ \E u \in Thread \ {t} : Inserting(u, bench[t].key)
      BY DEF ReadsFind
    <2> USE DEF KeyInv
    <2>1. bench[t] \in Benches /\ BenchInv(t) /\ bench[t].query = "read"
      BY DEF Shape, BenchInv
    <2>2. bench[t].key \notin Prepared
      BY DEF Records
    <2>3. backend.grows
      BY <2>1, <2>2 DEF BenchInv
    <2>4. bench[t].key \in MAX_RECORDS .. g_next_insert_key - 1
      BY <2>1, <2>2, BoundsAssumption DEF BenchInv, Benches, Shape, Prepared
    <2>5. PICK u \in Thread : Inserting(u, bench[t].key)
      BY <2>4 DEF Records, Resting
    <2>6. u # t
      BY <2>1, <2>5 DEF Inserting
    <2>7. bench[u].at \notin {"off", "start", "closed"}
      BY <2>5 DEF BenchInv, Inserting
    <2> QED
      BY <2>3, <2>5, <2>6, <2>7 DEF OneOpen
  <1> QED
    BY <1>1, KeysOfRounds, PTL

-----------------------------------------------------------------------------
(***************************************************************************)
(* The cache agrees with the database.  A value is followed on its way:    *)
(* from the setKV that is called to the request that the server executes   *)
(* after setKV has returned, and to the entry of the cache.                *)
(***************************************************************************)
\* v is the value of the record, or the one it is going to be inserted with.
Agrees(k, v) ==
  \/ store[k] # NoValue /\ v = store[k]
  \/ store[k] = NoValue /\ \E t \in Thread : Inserting(t, k) /\ bench[t].value = v

\* A value of k on its way to the cache or in it: it was drawn in this round or before
\* and agrees, if that is claimed of it.
Sound(k, v) == RoundOf(v) \in 0 .. program.round /\ (Claimed(k, v) => Agrees(k, v))

\* A call that is going to set an entry, c.key, to a value of its record.
SetSound(c) == c.ctrl = "SET" /\ c.key \in Entry => Sound(c.key[2], c.value[2])

CacheInv ==
  /\ cache = [e \in Entry |-> cache[e]]
  /\ calling = [t \in Thread |-> calling[t]] /\ inbox = [t \in Thread |-> inbox[t]]
  /\ \A e \in Entry : cache[e] # NoValue => Sound(e[2], cache[e][2])
  /\ \A t \in Thread : SetSound(calling[t]) /\ SetSound(inbox[t])
  /\ program.round = 0 => /\ \A e \in Entry : cache[e] = NoValue
                          /\ \A t \in Thread : calling[t].ctrl # "SET" /\ inbox[t].ctrl # "SET"

\* No record, and no insert, has a value of a round to come.
Drawn(v) == v # NoValue => RoundOf(v) \in 0 .. program.round

DrawnInv == (\A k \in Record : Drawn(store[k])) /\ \A t \in Thread : Drawn(bench[t].value)

\* A step after which every value that was sound is so still.
Kept == \A k \in Record : \A v : Sound(k, v) => Sound(k, v)'

-----------------------------------------------------------------------------
(***************************************************************************)
(* What becomes of the values in a step of the server or a call of it.     *)
(***************************************************************************)
\* An entry is named after a record.
LEMMA RecordOfEntry == \A e \in Entry : e[2] \in Record
  BY DEF Entry

\* Values of entries and of calls stay where they are.
LEMMA NothingSet ==
  ASSUME CacheInv, Kept, program'.round = 0 => program.round = 0, UNCHANGED <<cache, calling, inbox>>
  PROVE  CacheInv'
  BY RecordOfEntry DEF CacheInv, SetSound, Kept

\* A setKV is called with a sound value, and other calls set nothing.
LEMMA BeginKeeps ==
  ASSUME CacheInv, Kept, program'.round = program.round, program.round # 0,
         NEW t \in Thread, NEW c, Server!Begin(t, c), SetSound(c)'
  PROVE  CacheInv'
  <1>1. calling' = [calling EXCEPT ![t] = c] /\ UNCHANGED <<cache, inbox>>
    BY DEF Server!Begin
  <1>2. \A u \in Thread : calling'[u] = c \/ calling'[u] = calling[u]
    BY <1>1 DEF CacheInv
  <1>3. calling' = [u \in Thread |-> calling'[u]]
    BY <1>1 DEF CacheInv
  <1>4. \A u \in Thread : SetSound(calling[u])' /\ SetSound(inbox[u])'
    <2> SUFFICES ASSUME NEW u \in Thread PROVE SetSound(calling[u])' /\ SetSound(inbox[u])'
      OBVIOUS
    <2>1. SetSound(inbox[u])'
      BY <1>1, RecordOfEntry DEF CacheInv, SetSound, Kept
    <2>2. CASE calling'[u] = c
      BY <2>1, <2>2 DEF SetSound
    <2>3. CASE calling'[u] = calling[u]
      BY <2>1, <2>3, RecordOfEntry DEF CacheInv, SetSound, Kept
    <2> QED
      BY <2>2, <2>3, <1>2
  <1>5. \A e \in Entry : cache'[e] # NoValue => Sound(e[2], cache[e][2])'
    BY <1>1, RecordOfEntry DEF CacheInv, Kept
  <1> QED
    BY <1>1, <1>3, <1>4, <1>5 DEF CacheInv

\* The request of a call is handed over: what it sets is what the call sets.
LEMMA HandOverKeeps ==
  ASSUME CacheInv, Kept, program'.round = program.round, NEW t \in Thread, Server!HandOver(t)
  PROVE  CacheInv'
  <1>1. /\ inbox' = [inbox EXCEPT ![t] = calling[t]] /\ cache' = cache
        /\ calling' = calling \/ calling' = [calling EXCEPT ![t] = Server!NoCall]
    BY DEF Server!HandOver
  <1>2. \A u \in Thread : /\ calling'[u] = calling[u] \/ calling'[u] = Server!NoCall
                          /\ inbox'[u] = inbox[u] \/ inbox'[u] = calling[u]
    BY <1>1 DEF CacheInv
  <1>3. /\ calling' = [u \in Thread |-> calling'[u]] /\ inbox' = [u \in Thread |-> inbox'[u]]
    BY <1>1 DEF CacheInv
  <1>4. Server!NoCall.ctrl # "SET"
    BY DEF Server!NoCall
  <1>5. \A u \in Thread : SetSound(calling[u])' /\ SetSound(inbox[u])'
    BY <1>2, <1>4, RecordOfEntry DEF CacheInv, SetSound, Kept
  <1>6. \A e \in Entry : cache'[e] # NoValue => Sound(e[2], cache[e][2])'
    BY <1>1, RecordOfEntry DEF CacheInv, Kept
  <1> QED
    BY <1>1, <1>2, <1>3, <1>4, <1>5, <1>6 DEF CacheInv

\* getKV returns: nothing is called any more.
LEMMA ReturnKeeps ==
  ASSUME CacheInv, Kept, program'.round = program.round, NEW t \in Thread, Server!Return(t)
  PROVE  CacheInv'
  <1>1. calling' = [calling EXCEPT ![t] = Server!NoCall] /\ UNCHANGED <<cache, inbox>>
    BY DEF Server!Return
  <1>2. \A u \in Thread : calling'[u] = calling[u] \/ calling'[u] = Server!NoCall
    BY <1>1 DEF CacheInv
  <1>3. calling' = [u \in Thread |-> calling'[u]]
    BY <1>1 DEF CacheInv
  <1>4. Server!NoCall.ctrl # "SET"
    BY DEF Server!NoCall
  <1>5. \A u \in Thread : SetSound(calling[u])' /\ SetSound(inbox[u])'
    BY <1>1, <1>2, <1>4, RecordOfEntry DEF CacheInv, SetSound, Kept
  <1>6. \A e \in Entry : cache'[e] # NoValue => Sound(e[2], cache[e][2])'
    BY <1>1, RecordOfEntry DEF CacheInv, Kept
  <1> QED
    BY <1>1, <1>2, <1>3, <1>4, <1>5, <1>6 DEF CacheInv

\* A request is executed: an entry gets the value of the request, or none does.
LEMMA ExecuteKeeps ==
  ASSUME CacheInv, Kept, program'.round = program.round, NEW t \in Thread, Server!Execute(t)
  PROVE  CacheInv'
  <1> DEFINE c == inbox[t]
  <1>1. /\ inbox' = [inbox EXCEPT ![t] = Server!NoCall] /\ calling' = calling
        /\ \/ cache' = cache
           \/ c.ctrl = "SET" /\ cache' = [cache EXCEPT ![c.key] = c.value]
           \/ cache' = [cache EXCEPT ![c.key] = NoValue]
    BY DEF Server!Execute, Server!ExecuteSet, Server!ExecuteGet, Server!ExecuteDel,
           Server!ExecuteClose
  <1>2. \A u \in Thread : inbox'[u] = inbox[u] \/ inbox'[u] = Server!NoCall
    BY <1>1 DEF CacheInv
  <1>3. inbox' = [u \in Thread |-> inbox'[u]] /\ cache' = [e \in Entry |-> cache'[e]]
    BY <1>1 DEF CacheInv
  <1>4. Server!NoCall.ctrl # "SET"
    BY DEF Server!NoCall
  <1>5. \A u \in Thread : SetSound(calling[u])' /\ SetSound(inbox[u])'
    BY <1>1, <1>2, <1>4, RecordOfEntry DEF CacheInv, SetSound, Kept
  <1>6. \A e \in Entry : \/ cache'[e] = cache[e] \/ cache'[e] = NoValue
                         \/ c.ctrl = "SET" /\ e = c.key /\ cache'[e] = c.value
    BY <1>1 DEF CacheInv
  <1>7. SetSound(c)
    BY DEF CacheInv
  <1> HIDE DEF c
  <1>8. ASSUME NEW e \in Entry, cache'[e] # NoValue PROVE Sound(e[2], cache[e][2])'
    <2>1. Sound(e[2], cache'[e][2])
      BY <1>6, <1>7, <1>8 DEF CacheInv, SetSound
    <2> QED
      BY <2>1, RecordOfEntry DEF Kept
  <1>9. program'.round = 0 => \A e \in Entry : cache'[e] = NoValue
    BY <1>6 DEF CacheInv, c
  <1> QED
    BY <1>1, <1>2, <1>3, <1>4, <1>5, <1>8, <1>9 DEF CacheInv

\* An entry is dropped.
LEMMA DropKeeps ==
  ASSUME CacheInv, Kept, program'.round = program.round, NEW d \in Entry, Server!Drop(d)
  PROVE  CacheInv'
  <1>1. cache' = [cache EXCEPT ![d] = NoValue] /\ UNCHANGED <<calling, inbox>>
    BY DEF Server!Drop
  <1>2. /\ cache' = [e \in Entry |-> cache'[e]]
        /\ \A e \in Entry : cache'[e] = cache[e] \/ cache'[e] = NoValue
    BY <1>1 DEF CacheInv
  <1>3. \A e \in Entry : cache'[e] # NoValue => Sound(e[2], cache[e][2])'
    BY <1>2, RecordOfEntry DEF CacheInv, Kept
  <1>4. \A u \in Thread : SetSound(calling[u])' /\ SetSound(inbox[u])'
    BY <1>1, RecordOfEntry DEF CacheInv, SetSound, Kept
  <1> QED
    BY <1>1, <1>2, <1>3, <1>4 DEF CacheInv

-----------------------------------------------------------------------------
(***************************************************************************)
(* What becomes of the values in a step of a thread.                       *)
(***************************************************************************)
\* The key of an insert is a record, and not a prepared one.
LEMMA KeyOfInsert ==
  ASSUME KeyInv, NEW t \in Thread, bench[t].query = "insert"
  PROVE  bench[t].key \in Record /\ bench[t].key \notin Prepared
  <1>1. bench[t] \in Benches /\ BenchInv(t)
    BY DEF KeyInv, Shape
  <1>2. /\ bench[t].key \in Nat /\ bench[t].max_records \in Nat
        /\ bench[t].max_records >= MAX_RECORDS /\ bench[t].max_records <= bench[t].key
        /\ bench[t].key < g_next_insert_key
    BY <1>1, BoundsAssumption DEF BenchInv, Benches
  <1>3. g_next_insert_key - MAX_RECORDS <= Cardinality(Turns) /\ g_next_insert_key \in Nat
    BY DEF KeyInv, KeysApart, Shape
  <1> QED
    BY <1>2, <1>3, EnoughKeys, BoundsAssumption DEF Prepared

\* The key of a query that reads is a record.
LEMMA KeyOfRead ==
  ASSUME KeyInv, NEW t \in Thread, bench[t].at = "fetch"
  PROVE  bench[t].key \in Record
  <1>1. bench[t] \in Benches /\ BenchInv(t)
    BY DEF KeyInv, Shape
  <1>2. /\ bench[t].key \in Nat /\ bench[t].key < g_next_insert_key
        /\ g_next_insert_key - MAX_RECORDS <= Cardinality(Turns) /\ g_next_insert_key \in Nat
    BY <1>1, BoundsAssumption DEF BenchInv, Benches, KeyInv, KeysApart, Shape
  <1> QED
    BY <1>2, EnoughKeys, BoundsAssumption

\* A thread is at work in a round.
LEMMA InRound ==
  ASSUME KeyInv, NEW t \in Thread, bench[t].at # "off"
  PROVE  program.round # 0 /\ program.round \in Nat
  BY BoundsAssumption DEF KeyInv, Shape, BenchInv

\* Nothing moves.
LEMMA NothingMoves ==
  ASSUME UNCHANGED <<backend, store, bench>>, program'.round = program.round
  PROVE  Kept
  BY DEF Kept, Sound, Claimed, AtWork, Agrees, Inserting

\* A thread that inserts goes on with it until the record is there.
LEMMA ThreadMoves ==
  ASSUME KeyInv, NEW t \in Thread, NEW b, bench' = [bench EXCEPT ![t] = b],
         UNCHANGED <<backend, store, program>>, bench[t].at # "off",
         bench[t].query = "insert" =>
           \/ b.query = "insert" /\ b.key = bench[t].key /\ b.value = bench[t].value
           \/ store[bench[t].key] # NoValue
  PROVE  Kept
  <1> SUFFICES ASSUME NEW k \in Record, NEW v, Claimed(k, v)'
               PROVE  Claimed(k, v) /\ (Agrees(k, v) => Agrees(k, v)')
    BY DEF Kept, Sound
  <1>1. bench'[t] = b /\ \A u \in Thread \ {t} : bench'[u] = bench[u]
    BY DEF KeyInv, Shape
  <1>2. Claimed(k, v)
    BY DEF Claimed, AtWork
  <1>3. ASSUME Agrees(k, v) PROVE Agrees(k, v)'
    <2>1. CASE store[k] # NoValue
      BY <1>3, <2>1 DEF Agrees
    <2>2. CASE store[k] = NoValue
      <3>1. PICK u \in Thread : Inserting(u, k) /\ bench[u].value = v
        BY <1>3, <2>2 DEF Agrees
      <3>2. Inserting(u, k)' /\ bench'[u].value = v
        BY <3>1, <2>2, <1>1 DEF Inserting
      <3> QED
        BY <3>2, <2>2 DEF Agrees
    <2> QED
      BY <2>1, <2>2
  <1> QED
    BY <1>2, <1>3

\* The record that is inserted has the value that its thread set or is going to set, and is
\* new where something is claimed; no insert is of a prepared record.
LEMMA RecordMade ==
  ASSUME KeyInv, NEW t \in Thread, NEW b, bench' = [bench EXCEPT ![t] = b],
         UNCHANGED <<backend, program>>, bench[t].at = "store",
         NEW w, w = bench[t].value \/ store[bench[t].key] # NoValue,
         store' = [store EXCEPT ![bench[t].key] = w]
  PROVE  Kept
  <1> SUFFICES ASSUME NEW k \in Record, NEW v, Claimed(k, v)'
               PROVE  Claimed(k, v) /\ (Agrees(k, v) => Agrees(k, v)')
    BY DEF Kept, Sound
  <1> DEFINE key == bench[t].key
  <1>1. bench'[t] = b /\ \A u \in Thread \ {t} : bench'[u] = bench[u]
    BY DEF KeyInv, Shape
  <1>2. bench[t].query = "insert" /\ bench[t].value # NoValue
    BY DEF KeyInv, BenchInv
  <1>3. key \in Record /\ key \notin Prepared
    BY <1>2, KeyOfInsert
  <1>4. Claimed(k, v)
    BY DEF Claimed, AtWork
  <1>5. ASSUME Agrees(k, v), k # key PROVE Agrees(k, v)'
    <2>1. store'[k] = store[k]
      BY <1>5 DEF KeyInv, Shape
    <2>2. CASE store[k] # NoValue
      BY <1>5, <2>1, <2>2 DEF Agrees
    <2>3. CASE store[k] = NoValue
      <3>1. PICK u \in Thread : Inserting(u, k) /\ bench[u].value = v
        BY <1>5, <2>3 DEF Agrees
      <3>2. u # t /\ Inserting(u, k)' /\ bench'[u].value = v
        BY <3>1, <1>1, <1>5 DEF Inserting
      <3> QED
        BY <3>2, <2>1, <2>3 DEF Agrees
    <2> QED
      BY <2>2, <2>3
  <1>6. ASSUME Agrees(k, v), k = key PROVE Agrees(k, v)'
    <2>1. program.round <= 1 \/ backend.kind # "tmdb"
      BY <1>3, <1>4, <1>6 DEF Claimed
    <2>2. store[k] = NoValue
      BY <1>6, <2>1 DEF KeyInv, Records
    <2>3. PICK u \in Thread : Inserting(u, k) /\ bench[u].value = v
      BY <1>6, <2>2 DEF Agrees
    <2>4. u = t
      BY <2>3, <1>2, <1>6 DEF KeyInv, KeysApart, Inserting
    <2>5. store'[k] = w /\ w = v /\ v # NoValue
      BY <2>2, <2>3, <2>4, <1>2, <1>3, <1>6 DEF KeyInv, Shape
    <2> QED
      BY <2>5 DEF Agrees
  <1> QED
    BY <1>4, <1>5, <1>6

-----------------------------------------------------------------------------
(***************************************************************************)
(* The actions.                                                            *)
(***************************************************************************)
\* A round begins with no value of its own, the first one with an empty cache; and
\* between rounds only the prepared records are claimed, which stay as they are.
LEMMA RoundCoherent ==
  ASSUME KeyInv, CacheInv, StartRound \/ CleanUp
  PROVE  CacheInv'
  <1>1. CASE StartRound
    <2>1. /\ program' = [program EXCEPT !.round = @ + 1]
          /\ UNCHANGED <<backend, store, cache, calling, inbox>>
      BY <1>1 DEF StartRound, server
    <2>2. program'.round = program.round + 1 /\ program.round \in Nat
      BY <2>1, BoundsAssumption DEF KeyInv, Shape
    <2>3. CASE program.round = 0
      <3>1. program'.round # 0
        BY <2>2
      <3> QED
        BY <2>1, <2>3, <3>1 DEF CacheInv, SetSound
    <2>4. CASE program.round # 0
      <3>1. ~(program'.round <= 1) /\ 0 .. program.round \subseteq 0 .. program'.round
            /\ program'.round \notin 0 .. program.round
        BY <2>2, <2>4
      <3>2. \A k \in Record : \A v : Sound(k, v) /\ Claimed(k, v)' => k \in Prepared
        BY <3>1 DEF Sound, Claimed
      <3>3. \A k \in Prepared : store[k] # NoValue /\ store'[k] = store[k]
        BY <2>1 DEF KeyInv, Records
      <3>4. Kept
        BY <3>1, <3>2, <3>3 DEF Kept, Sound, Claimed, Agrees
      <3>5. program'.round # 0
        BY <2>2
      <3> QED
        BY <2>1, <3>4, <3>5, NothingSet
    <2> QED
      BY <2>3, <2>4
  <1>2. CASE CleanUp
    <2>1. /\ bench' = [t \in Thread |-> Off]
          /\ store' = [k \in Record |-> IF k \in Inserted THEN NoValue ELSE store[k]]
          /\ UNCHANGED <<program, cache, calling, inbox>>
      BY <1>2 DEF CleanUp, rest, server
    <2>2. \A k \in Record : \A v : Claimed(k, v)' => k \in Prepared
      BY <2>1 DEF Claimed, AtWork, Off
    <2>3. \A k \in Prepared : k \in Record /\ k \notin Inserted
      BY EnoughKeys, BoundsAssumption DEF Prepared, Inserted, KeyInv, Shape, BackendKinds
    <2>4. \A k \in Prepared : store[k] # NoValue /\ store'[k] = store[k]
      BY <2>1, <2>3 DEF KeyInv, Records
    <2>5. Kept
      BY <2>1, <2>2, <2>4 DEF Kept, Sound, Claimed, Agrees
    <2> QED
      BY <2>1, <2>5, NothingSet
  <1> QED
    BY <1>1, <1>2

\* The server executes requests and drops entries.
LEMMA ServerCoherent ==
  ASSUME CacheInv, ServerStep
  PROVE  CacheInv'
  <1>1. Kept /\ program'.round = program.round
    BY NothingMoves DEF ServerStep, rest
  <1>2. CASE \E t \in Thread : Server!Execute(t)
    BY <1>1, <1>2, ExecuteKeeps
  <1>3. CASE \E e \in Entry : cache[e] # NoValue /\ Server!Drop(e)
    BY <1>1, <1>3, DropKeeps
  <1> QED
    BY <1>2, <1>3 DEF ServerStep

\* The calls a thread makes without setting anything.
LEMMA ReadCoherent ==
  ASSUME KeyInv, CacheInv, NEW t \in Thread,
         \/ \E k \in Readable(t) : Read(t, k)
         \/ AskCache(t)
         \/ CacheAnswers(t)
  PROVE  CacheInv'
  <1>1. ASSUME NEW k \in Readable(t), Read(t, k) PROVE CacheInv'
    <2> DEFINE b == [bench[t] EXCEPT !.at = "get", !.query = "read", !.key = k]
    <2>1. /\ bench[t].at = "next" /\ bench' = [bench EXCEPT ![t] = b]
          /\ UNCHANGED <<backend, store, program>> /\ Server!Begin(t, GetOf(b))
      BY <1>1 DEF Read, At, Become, rest
    <2>2. bench[t].query = "none"
      BY <2>1 DEF KeyInv, BenchInv
    <2>3. Kept
      BY <2>1, <2>2, ThreadMoves
    <2>4. PICK c : c = GetOf(b)
      OBVIOUS
    <2>5. Server!Begin(t, c)
      BY <2>1, <2>4
    <2>6. SetSound(c)'
      BY <2>4 DEF SetSound, GetOf
    <2>7. program.round # 0
      BY <2>1, InRound
    <2> QED
      BY <2>1, <2>3, <2>5, <2>6, <2>7, BeginKeeps
  <1>2. CASE AskCache(t)
    <2>1. UNCHANGED <<backend, store, bench, program>> /\ Server!HandOver(t)
      BY <1>2 DEF AskCache, rest
    <2> QED
      BY <2>1, NothingMoves, HandOverKeeps
  <1>3. CASE CacheAnswers(t)
    <2> DEFINE b == IF answer[t] = NoValue
                      THEN [bench[t] EXCEPT !.at = "fetch"] ELSE Finished(bench[t])
    <2>1. /\ bench[t].at = "get" /\ bench' = [bench EXCEPT ![t] = b]
          /\ UNCHANGED <<backend, store, program>> /\ Server!Return(t)
      BY <1>3 DEF CacheAnswers, At, Become, rest
    <2>2. bench[t].query = "read"
      BY <2>1 DEF KeyInv, BenchInv
    <2> HIDE DEF b
    <2>3. Kept
      BY <2>1, <2>2, ThreadMoves
    <2> QED
      BY <2>1, <2>3, ReturnKeeps
  <1> QED
    BY <1>1, <1>2, <1>3

\* A thread opens or closes its backend, or the program ends.
LEMMA QuietCoherent ==
  ASSUME KeyInv, CacheInv, NEW t \in Thread,
         \/ OpenBackend(t)
         \/ CloseBackend(t)
         \/ Terminate
  PROVE  CacheInv'
  <1>1. CASE Terminate
    <2>1. /\ program' = [program EXCEPT !.up = FALSE]
          /\ UNCHANGED <<backend, store, bench, cache, calling, inbox>>
      BY <1>1 DEF Terminate, server
    <2>2. program'.round = program.round
      BY <2>1 DEF KeyInv, Shape
    <2> QED
      BY <2>1, <2>2, NothingMoves, NothingSet
  <1>2. CASE OpenBackend(t) /\ ~Terminate
    <2> DEFINE b == [bench[t] EXCEPT !.at = "next"]
    <2>1. /\ bench[t].at = "start" /\ bench' = [bench EXCEPT ![t] = b]
          /\ UNCHANGED <<backend, store, program, cache, calling, inbox>>
      BY <1>2 DEF OpenBackend, At, Become, rest, server
    <2>2. bench[t].query = "none"
      BY <2>1 DEF KeyInv, BenchInv
    <2> HIDE DEF b
    <2>3. Kept
      BY <2>1, <2>2, ThreadMoves
    <2> QED
      BY <2>1, <2>3, NothingSet
  <1>3. CASE CloseBackend(t)
    <2> DEFINE b == [bench[t] EXCEPT !.at = "closed"]
    <2>1. /\ bench[t].at = "next" /\ bench' = [bench EXCEPT ![t] = b]
          /\ UNCHANGED <<backend, store, program, cache, calling, inbox>>
      BY <1>3 DEF CloseBackend, At, Become, rest, server
    <2>2. bench[t].query = "none"
      BY <2>1 DEF KeyInv, BenchInv
    <2> HIDE DEF b
    <2>3. Kept
      BY <2>1, <2>2, ThreadMoves
    <2> QED
      BY <2>1, <2>3, NothingSet
  <1> QED
    BY <1>1, <1>2, <1>3

\* What is called with SetOf(b) is the value of b for its record.
LEMMA SetOfSound ==
  ASSUME NEW b, Sound(b.key, b.value)'
  PROVE  SetSound(SetOf(b))'
  <1>1. /\ SetOf(b).key = <<b.counter, b.key>> /\ SetOf(b).value[2] = b.value
        /\ SetOf(b).key[2] = b.key
    BY DEF SetOf, EntryOf
  <1> QED
    BY <1>1 DEF SetSound

\* What a miss found in the database is set.
LEMMA FetchCoherent ==
  ASSUME KeyInv, DrawnInv, CacheInv, NEW t \in Thread, Fetch(t)
  PROVE  CacheInv'
  <1>1. CASE Terminate
    BY <1>1, QuietCoherent
  <1>2. CASE ~Terminate
    <2> PICK b : b = [bench[t] EXCEPT !.at = "set", !.value = store[bench[t].key]]
      OBVIOUS
    <2> PICK c : c = SetOf(b)
      OBVIOUS
    <2>1. /\ bench[t].at = "fetch" /\ bench' = [bench EXCEPT ![t] = b]
          /\ UNCHANGED <<backend, store, program>> /\ Server!Begin(t, c) /\ b.value # NoValue
      BY <1>2 DEF Fetch, At, Become, rest
    <2>2. bench[t].query = "read"
      BY <2>1 DEF KeyInv, BenchInv
    <2>3. Kept
      BY <2>1, <2>2, ThreadMoves
    <2>4. b.key = bench[t].key /\ b.value = store[b.key]
      <3>1. bench[t] \in Benches
        BY DEF KeyInv, Shape
      <3> QED
        BY <3>1 DEF Benches
    <2>5. Sound(b.key, b.value)'
      <3>1. b.key \in Record
        BY <2>1, KeyOfRead
      <3> QED
        BY <3>1, <2>1, <2>4 DEF Agrees, Sound, DrawnInv, Drawn
    <2>6. SetSound(c)'
      BY <2>5, SetOfSound
    <2>7. program.round # 0
      BY <2>1, InRound
    <2> QED
      BY <2>1, <2>3, <2>6, <2>7, BeginKeeps
  <1> QED
    BY <1>1, <1>2

\* tmdb sets the value of a new key before there is a record.
LEMMA ReserveCoherent ==
  ASSUME KeyInv, CacheInv, NEW t \in Thread, Reserve(t)
  PROVE  CacheInv'
  <1> PICK b : b = [bench[t] EXCEPT !.query = "insert", !.key = g_next_insert_key,
                            !.value = Draw(program.round, t, bench[t].current_query),
                            !.at = IF backend.kind = "tmdb" THEN "set" ELSE "store"]
    OBVIOUS
  <1>1. /\ bench[t].at = "next" /\ bench' = [bench EXCEPT ![t] = b]
        /\ UNCHANGED <<backend, store, program>>
        /\ IF backend.kind = "tmdb" THEN Server!Begin(t, SetOf(b)) ELSE UNCHANGED server
    BY DEF Reserve, At, Become, rest
  <1>2. bench[t].query = "none" /\ bench'[t] = b
    BY <1>1 DEF KeyInv, BenchInv, Shape
  <1>3. Kept
    BY <1>1, <1>2, ThreadMoves
  <1>4. CASE backend.kind # "tmdb"
    BY <1>1, <1>3, <1>4, NothingSet DEF server
  <1>5. CASE backend.kind = "tmdb"
    <2> PICK c : c = SetOf(b)
      OBVIOUS
    <2>1. KeyInv'
      BY ReserveTakes
    <2>2. b.query = "insert" /\ b.at = "set" /\ b.key = g_next_insert_key
      <3>1. bench[t] \in Benches
        BY DEF KeyInv, Shape
      <3> QED
        BY <3>1, <1>5 DEF Benches
    <2>3. b.key \notin Prepared
      BY <2>2, BoundsAssumption DEF KeyInv, Shape, Prepared
    <2>4. ASSUME Claimed(b.key, b.value)' PROVE Agrees(b.key, b.value)'
      <3>1. program'.round <= 1
        BY <2>3, <2>4, <1>1, <1>5 DEF Claimed
      <3>2. store'[b.key] = NoValue
        <4>1. Records' /\ backend'.kind = "tmdb"
          BY <2>1, <1>1, <1>5 DEF KeyInv
        <4>2. bench'[t].at = "set" /\ bench'[t].query = "insert" /\ bench'[t].key = b.key
          BY <1>2, <2>2
        <4> QED
          BY <3>1, <4>1, <4>2 DEF Records
      <3> QED
        BY <3>2, <2>2, <1>2 DEF Agrees, Inserting
    <2>5. RoundOf(b.value) \in 0 .. program'.round
      <3>1. b.value = Draw(program.round, t, bench[t].current_query)
        <4>1. bench[t] \in Benches
          BY DEF KeyInv, Shape
        <4> QED
          BY <4>1 DEF Benches
      <3>2. program.round \in Nat
        BY <1>1, InRound
      <3> QED
        BY <3>1, <3>2, <1>1 DEF Draw, RoundOf
    <2>6. SetSound(c)'
      BY <2>4, <2>5, SetOfSound DEF Sound
    <2>7. program.round # 0
      BY <1>1, InRound
    <2> QED
      BY <2>6, <2>7, <1>1, <1>3, <1>5, BeginKeeps
  <1> QED
    BY <1>4, <1>5

\* A record is inserted, and LevelDB sets it then.
LEMMA InsertCoherent ==
  ASSUME KeyInv, DrawnInv, CacheInv, NEW t \in Thread, InsertRecord(t)
  PROVE  CacheInv'
  <1>1. /\ bench[t].at = "store" /\ bench[t].query = "insert" /\ bench[t].value # NoValue
        /\ bench[t].key \in Record /\ bench[t] \in Benches
    BY KeyOfInsert DEF InsertRecord, At, KeyInv, BenchInv, Shape
  <1>2. CASE InsertTmdb(t)
    <2> DEFINE w == IF store[bench[t].key] = NoValue THEN bench[t].value
                                                      ELSE store[bench[t].key]
               b == Finished(bench[t])
    <2>1. /\ bench' = [bench EXCEPT ![t] = b] /\ store' = [store EXCEPT ![bench[t].key] = w]
          /\ UNCHANGED <<backend, program, cache, calling, inbox>>
      BY <1>2 DEF InsertTmdb, Become, rest, server
    <2>2. w = bench[t].value \/ store[bench[t].key] # NoValue
      OBVIOUS
    <2> HIDE DEF w, b
    <2>3. Kept
      BY <2>1, <2>2, <1>1, RecordMade
    <2> QED
      BY <2>1, <2>3, NothingSet
  <1>3. CASE InsertLevelDB(t)
    <2> PICK b : b = [bench[t] EXCEPT !.at = "set"]
      OBVIOUS
    <2> PICK c : c = SetOf(bench[t])
      OBVIOUS
    <2>1. /\ bench' = [bench EXCEPT ![t] = b] /\ UNCHANGED <<backend, program>> /\ Server!Begin(t, c)
          /\ store' = [store EXCEPT ![bench[t].key] = bench[t].value]
      BY <1>3 DEF InsertLevelDB, Become, rest
    <2>2. Kept
      BY <2>1, <1>1, RecordMade
    <2>3. b.key = bench[t].key /\ b.value = bench[t].value /\ c = SetOf(b)
      BY <1>1 DEF Benches, SetOf, EntryOf
    <2>4. store'[b.key] = b.value /\ b.value # NoValue
      BY <2>1, <2>3, <1>1 DEF KeyInv, Shape
    <2>5. Sound(b.key, b.value)'
      BY <2>1, <2>3, <2>4 DEF Agrees, Sound, DrawnInv, Drawn
    <2>6. SetSound(c)'
      BY <2>3, <2>5, SetOfSound
    <2>7. program.round # 0
      BY <1>1, InRound
    <2> QED
      BY <2>1, <2>2, <2>6, <2>7, BeginKeeps
  <1>4. CASE InsertSql(t) /\ ~Terminate
    <2> DEFINE w == bench[t].value
               b == [Finished(bench[t]) EXCEPT !.counter = @ + 1]
    <2>1. /\ bench' = [bench EXCEPT ![t] = b] /\ store' = [store EXCEPT ![bench[t].key] = w]
          /\ UNCHANGED <<backend, program, cache, calling, inbox>>
      BY <1>4 DEF InsertSql, Become, rest, server
    <2> HIDE DEF b
    <2>2. Kept
      BY <2>1, <1>1, RecordMade
    <2> QED
      BY <2>1, <2>2, NothingSet
  <1>5. CASE InsertSql(t) /\ Terminate
    BY <1>5, QuietCoherent
  <1> QED
    BY <1>2, <1>3, <1>4, <1>5 DEF InsertRecord

\* setKV hands its request over and returns; a thread that is done with its insert
\* leaves the record.
LEMMA SetCoherent ==
  ASSUME KeyInv, CacheInv, NEW t \in Thread, SetCache(t)
  PROVE  CacheInv'
  <1> DEFINE tmdb == bench[t].query = "insert" /\ backend.kind = "tmdb"
             b == IF tmdb THEN [bench[t] EXCEPT !.at = "store"] ELSE Finished(bench[t])
  <1>1. /\ bench[t].at = "set" /\ bench' = [bench EXCEPT ![t] = b]
        /\ UNCHANGED <<backend, store, program>> /\ Server!HandOver(t)
    BY DEF SetCache, At, Become, rest
  <1>2. bench[t] \in Benches
    BY DEF KeyInv, Shape
  <1>3. bench[t].query = "insert" =>
          \/ b.query = "insert" /\ b.key = bench[t].key /\ b.value = bench[t].value
          \/ store[bench[t].key] # NoValue
    <2>1. CASE tmdb
      BY <2>1, <1>2 DEF Benches
    <2>2. CASE ~tmdb
      BY <2>2, <1>1 DEF KeyInv, Records
    <2> QED
      BY <2>1, <2>2
  <1> HIDE DEF b
  <1>4. Kept
    BY <1>1, <1>3, ThreadMoves
  <1> QED
    BY <1>1, <1>4, HandOverKeeps

-----------------------------------------------------------------------------
\* Where the values of records and queries come from in a step.
HandedOn ==
  /\ \A k \in Record : \/ store'[k] \in {store[k], NoValue}
                       \/ \E t \in Thread : store'[k] = bench[t].value
  /\ \A t \in Thread : \/ bench'[t].value \in {bench[t].value, NoValue}
                       \/ \E k \in Record : bench'[t].value = store[k]
                       \/ RoundOf(bench'[t].value) = program.round

Later == program.round \in Nat /\ program'.round \in {program.round, program.round + 1}

\* If values are only handed on or drawn in the round, none is of a round to come.
LEMMA RecordsHandOn ==
  ASSUME DrawnInv, HandedOn, Later
  PROVE  DrawnInv'
  <1>1. 0 .. program.round \subseteq 0 .. program'.round /\ program.round \in 0 .. program.round
    BY DEF Later
  <1> QED
    BY <1>1 DEF DrawnInv, Drawn, HandedOn

\* The steps of the program and of the server hand values on ...
LEMMA ProgramHandsOn ==
  ASSUME KeyInv, DrawnInv, StartRound \/ CleanUp \/ ServerStep
  PROVE  DrawnInv'
  <1>1. Later
    BY BoundsAssumption DEF StartRound, CleanUp, ServerStep, rest, Later, KeyInv, Shape
  <1>2. HandedOn
    <2>1. \A k \in Record : store'[k] \in {store[k], NoValue}
      BY DEF StartRound, CleanUp, ServerStep
    <2>2. \A t \in Thread : bench'[t].value \in {bench[t].value, NoValue}
      BY DEF StartRound, CleanUp, ServerStep, Off
    <2> QED
      BY <2>1, <2>2 DEF HandedOn
  <1> QED
    BY <1>1, <1>2, RecordsHandOn

\* A step of a thread.
StepOf(t) ==
  \/ OpenBackend(t) \/ CloseBackend(t)
  \/ \E k \in Readable(t) : Read(t, k)
  \/ AskCache(t) \/ CacheAnswers(t) \/ Fetch(t)
  \/ Reserve(t)
  \/ InsertRecord(t) \/ SetCache(t)

\* ... and those of a thread do, or draw one in the round.
LEMMA ThreadHandsOn ==
  ASSUME KeyInv, DrawnInv, NEW t \in Thread, StepOf(t)
  PROVE  DrawnInv'
  <1> DEFINE b == bench[t]
  <1>1. b \in Benches /\ bench \in [Thread -> Benches] /\ store \in [Record -> Data \cup {NoValue}]
    BY DEF KeyInv, Shape
  <1>2. Later
    <2>1. program' = program \/ Terminate
      BY DEF StepOf, OpenBackend, CloseBackend, Read, AskCache, CacheAnswers, Fetch,
         Reserve, InsertRecord, InsertTmdb, InsertLevelDB, InsertSql, SetCache, rest
    <2>2. program \in [up : BOOLEAN, round : 0 .. Rounds]
      BY DEF KeyInv, Shape
    <2>3. program'.round = program.round
      BY <2>1, <2>2 DEF Terminate
    <2> QED
      BY <2>2, <2>3, BoundsAssumption DEF Later
  <1>3. HandedOn
    <2>1. CASE UNCHANGED <<store, bench>>
      BY <2>1 DEF HandedOn
    <2>2. ASSUME NEW c, bench' = [bench EXCEPT ![t] = c], store' = store,
                 \/ c.value \in {b.value, NoValue}
                 \/ \E k \in Record : c.value = store[k]
                 \/ RoundOf(c.value) = program.round
          PROVE  HandedOn
      <3>1. \A u \in Thread : (bench'[u] = c /\ u = t) \/ bench'[u] = bench[u]
        BY <2>2, <1>1
      <3> QED
        BY <2>2, <3>1 DEF HandedOn
    <2>3. CASE OpenBackend(t) \/ CloseBackend(t)
      BY <2>1, <2>2, <2>3, <1>1 DEF OpenBackend, CloseBackend, Terminate, Become, Benches
    <2>4. CASE \E k \in Readable(t) : Read(t, k)
      BY <2>2, <2>4, <1>1 DEF Read, Become, Benches
    <2>5. CASE AskCache(t) \/ CacheAnswers(t) \/ SetCache(t)
      BY <2>1, <2>2, <2>5, <1>1 DEF AskCache, CacheAnswers, SetCache, Become, Finished, Benches
    <2>6. CASE Fetch(t)
      BY <2>1, <2>2, <2>6, <1>1, KeyOfRead DEF Fetch, At, Terminate, Become, Benches
    <2>7. CASE Reserve(t)
      BY <2>2, <2>7, <1>1 DEF Reserve, Become, Benches, Draw, RoundOf
    <2>8. CASE InsertRecord(t)
      <3>1. CASE UNCHANGED <<store, bench>>
        BY <2>1, <3>1
      <3>2. CASE ~UNCHANGED <<store, bench>>
        <4>1. PICK c, w : /\ bench' = [bench EXCEPT ![t] = c] /\ c.value \in {b.value, NoValue}
                          /\ store' = [store EXCEPT ![b.key] = w]
                          /\ w \in {b.value, store[b.key]}
          <5>1. CASE InsertTmdb(t)
            <6> DEFINE w == IF store[b.key] = NoValue THEN b.value ELSE store[b.key]
            <6>1. bench' = [bench EXCEPT ![t] = Finished(b)] /\ Finished(b).value = NoValue
              BY <5>1, <1>1 DEF InsertTmdb, Become, Finished, Benches
            <6>2. store' = [store EXCEPT ![b.key] = w] /\ w \in {b.value, store[b.key]}
              BY <5>1 DEF InsertTmdb
            <6> HIDE DEF w
            <6> QED
              BY <6>1, <6>2
          <5>2. CASE InsertLevelDB(t)
            BY <5>2, <1>1 DEF InsertLevelDB, Become, Benches
          <5>3. CASE InsertSql(t)
            BY <5>3, <3>2, <1>1 DEF InsertSql, Terminate, Become, Finished, Benches
          <5> QED
            BY <2>8, <5>1, <5>2, <5>3 DEF InsertRecord
        <4>2. \A k \in Record : store'[k] = store[k] \/ store'[k] = b.value
          BY <4>1, <1>1
        <4>3. \A u \in Thread : bench'[u] = bench[u] \/ (u = t /\ bench'[u] = c)
          BY <4>1, <1>1
        <4>4. \A u \in Thread : bench'[u].value \in {bench[u].value, NoValue}
          BY <4>1, <4>3
        <4> QED
          BY <4>2, <4>4 DEF HandedOn
      <3> QED
        BY <3>1, <3>2
    <2> QED
      BY <2>3, <2>4, <2>5, <2>6, <2>7, <2>8 DEF StepOf
  <1> QED
    BY <1>2, <1>3, RecordsHandOn

\* A value is drawn in the round of its query, and records and queries hand values on.
THEOREM DrawnBefore == Spec => []DrawnInv
  <1>1. Init => DrawnInv
    <2> SUFFICES ASSUME Init PROVE DrawnInv
      OBVIOUS
    <2>1. \A k \in Record : store[k] = NoValue \/ store[k] = Prepare(k)
      BY DEF Init
    <2>2. \A t \in Thread : bench[t].value = NoValue
      BY DEF Init, Off
    <2>3. program.round = 0
      BY DEF Init
    <2> QED
      BY <2>1, <2>2, <2>3 DEF DrawnInv, Drawn, Prepare, RoundOf
  <1>2. KeyInv /\ DrawnInv /\ [Next]_vars => DrawnInv'
    <2> SUFFICES ASSUME KeyInv, DrawnInv, [Next]_vars PROVE DrawnInv'
      OBVIOUS
    <2>1. CASE UNCHANGED vars
      BY <2>1, RecordsHandOn DEF vars, HandedOn, Later, KeyInv, Shape
    <2>2. CASE StartRound \/ CleanUp \/ ServerStep
      BY <2>2, ProgramHandsOn
    <2>3. ASSUME NEW t \in Thread, StepOf(t) PROVE DrawnInv'
      BY <2>3, ThreadHandsOn
    <2> QED
      BY <2>1, <2>2, <2>3 DEF Next, StepOf
  <1> QED
    BY <1>1, <1>2, KeysOfRounds, PTL DEF Spec

\* Every value on its way to the cache, or in it, agrees with the database.
THEOREM ValuesAgree == Spec => []CacheInv
  <1>1. Init => CacheInv
    <2> SUFFICES ASSUME Init PROVE CacheInv
      OBVIOUS
    <2>1. /\ cache = [e \in Entry |-> NoValue]
          /\ calling = [t \in Thread |-> Server!NoCall]
          /\ inbox = [t \in Thread |-> Server!NoCall]
      BY DEF Init, Server!Init
    <2>2. Server!NoCall.ctrl # "SET"
      BY DEF Server!NoCall
    <2> QED
      BY <2>1, <2>2 DEF CacheInv, SetSound
  <1>2. KeyInv /\ DrawnInv /\ CacheInv /\ [Next]_vars => CacheInv'
    <2> SUFFICES ASSUME KeyInv, DrawnInv, CacheInv, [Next]_vars PROVE CacheInv'
      OBVIOUS
    <2>1. CASE UNCHANGED vars
      BY <2>1, NothingMoves, NothingSet DEF vars, server
    <2> QED
      BY <2>1, RoundCoherent, ServerCoherent, ReadCoherent, QuietCoherent, FetchCoherent,
         ReserveCoherent, InsertCoherent, SetCoherent DEF Next
  <1> QED
    BY <1>1, <1>2, KeysOfRounds, DrawnBefore, PTL DEF Spec

\* No entry of the cache differs from the database until the first clean-up, no entry of
\* a prepared record ever does, and none with a value of the round in progress if not
\* with tmdb, although setKV returns before it is executed, the cache may fail to store
\* an entry or drop it, and backends set and insert in different orders
\* (TmdbBackend.cpp, LevelDBBackend.cpp, SQLiteBackend.cpp).
THEOREM Coherence == Spec => []Coherent
  <1>1. CacheInv => Coherent
    BY DEF CacheInv, Sound, Coherent, Agrees
  <1> QED
    BY <1>1, ValuesAgree, PTL
=============================================================================
