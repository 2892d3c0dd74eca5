-------------------------------- MODULE Tmdb --------------------------------
(***************************************************************************)
(* TMDB, the hash-table store of tmdb/src/tmdb.cpp: an index file and a    *)
(* data file, and several handles (TDB) that lock both files with flock    *)
(* for every call.  A process may be killed at any time, also in the       *)
(* middle of an append, and goes on with the files as it left them.        *)
(*                                                                         *)
(* Files are words of 4 bytes and positions count words, since what is     *)
(* written where is what can go wrong.  An off_t is two words; the text of *)
(* a key is its first word and 15 words of zero bytes.                     *)
(***************************************************************************)
EXTENDS TmdbCalls, Naturals, Sequences, FiniteSets

CONSTANTS
  Hash,     \* _db_hash, the bucket of each key
  Buckets,  \* TDB_MAX_HASH_BUCKET
  Torn,     \* words of an append that reach a file when its process is killed
  MaxData   \* bound: data records after which no store begins

ASSUME HashAssumption ==
  /\ IsFiniteSet(Key)    \* texts of at most 63 characters
  /\ Buckets \in Nat \ {0} /\ Hash \in [Key -> 0 .. Buckets - 1]
ASSUME BoundsAssumption == MaxData \in Nat /\ Torn \subseteq 0 .. 4

VARIABLES
  idx,   \* index file: header, hash buckets, key records
  dat,   \* data file: header, data records
  lock,  \* per file, the lock of each handle on it
  pc,    \* control state of each handle
  call,  \* the call each handle is in, with the value a fetch has read
  db     \* what _db_find_and_lock left in the handle, and what it wrote since

files == <<idx, dat>>
vars  == <<idx, dat, lock, pc, call, db>>

-----------------------------------------------------------------------------
(***************************************************************************)
(* Files.                                                                  *)
(***************************************************************************)
Header     == 64       \* TDB_INDEX_HEADER_LEN, TDB_DATA_HEADER_LEN
KeyRecord  == 22       \* flag, key (16), padding, data_ptr (2), next_ptr (2)
DataPtr    == 18
NextPtr    == 20
DataRecord == 5        \* flag, len, data, next (2)
Beyond     == 2^30     \* an offset of more than 32 bits: after the end of any file

Bucket(hash) == Header + 2 * hash

\* A file is its size and those of its words that are not zero.
Word(f, p)        == IF p \in DOMAIN f.words THEN f.words[p] ELSE 0
Offset(f, p)      == IF Word(f, p + 1) = 0 THEN Word(f, p) ELSE Beyond
Readable(f, p, n) == p + n <= f.size

Written(f, p, text) ==
  LET end    == p + Len(text)
      at(q)  == IF q \in p .. end - 1 THEN text[q - p + 1] ELSE Word(f, q)
      places == {q \in DOMAIN f.words \cup p .. end - 1 : at(q) # 0}
  IN [size  |-> IF end > f.size THEN end ELSE f.size,
      words |-> [q \in places |-> at(q)]]

NewFile(size) == [size |-> size, words |-> [p \in {} |-> 0]]
Zeros(n)      == [i \in 1 .. n |-> 0]

-----------------------------------------------------------------------------
\* preidx, idxoff, key_ptr_pos, datoff, and record_pos and key_ptr_pos of a store
NoDb == [found |-> "NONE", preidx |-> 0, idxoff |-> 0, key_ptr_pos |-> 0, datoff |-> 0,
         record_pos |-> 0, new_key |-> 0]

Files    == {"idx", "dat"}
Unlocked == [h \in Handle |-> "UN"]

\* _db_create
Init ==
  /\ idx  = NewFile(Header + 2 * Buckets)
  /\ dat  = NewFile(Header)
  /\ lock = [f \in Files |-> Unlocked]
  /\ pc   = [h \in Handle |-> "idle"]
  /\ call = [h \in Handle |-> NoCall]
  /\ db   = [h \in Handle |-> NoDb]

At(h, from)  == pc[h] = from
GoTo(h, to)  == pc' = [pc EXCEPT ![h] = to]

Begin(h, c) ==
  /\ At(h, "idle")
  /\ c.kind \in Stores => dat.size < Header + DataRecord * MaxData
  /\ call' = [call EXCEPT ![h] = c]
  /\ GoTo(h, "lockIdx")
  /\ UNCHANGED <<files, lock, db>>

-----------------------------------------------------------------------------
(***************************************************************************)
(* _db_find_and_lock: flock on both files, then along the chain of the     *)
(* key's bucket.                                                           *)
(***************************************************************************)
\* Writers lock like readers.
WantedShared(c) == "SH"

Wanted(c) == IF c.kind = "FETCH" THEN "SH" ELSE "EX"

\* flock is not atomic for a handle that holds a lock of the other kind: the
\* old lock is given up, others may come first, and then it waits.
Flock(h, f, next) ==
  LET l == Wanted(call[h])
  IN /\ \/ /\ lock[f][h] \in {"UN", l}
           /\ \A g \in Handle \ {h} : lock[f][g] = "UN" \/ {l, lock[f][g]} = {"SH"}
           /\ lock' = [lock EXCEPT ![f][h] = l]
           /\ GoTo(h, next)
        \/ /\ lock[f][h] \notin {"UN", l}
           /\ lock' = [lock EXCEPT ![f][h] = "UN"]
           /\ UNCHANGED pc
     /\ UNCHANGED <<files, call, db>>

LockIdx(h) == At(h, "lockIdx") /\ Flock(h, "idx", "lockDat")
LockDat(h) == At(h, "lockDat") /\ Flock(h, "dat", "bucket")

\* An insert of a key that is there returns with both locks.
AfterExistLocked(kind) ==
  CASE kind = "INSERT" -> "idle" [] kind \in {"REPLACE", "STORE"} -> "data"
    [] kind = "FETCH"  -> "read" [] kind = "DELETE"               -> "mark"

\* What follows the search when the key was found, and when it was not: a
\* delete of a missing key returns with both locks.
AfterExist(kind) ==
  CASE kind = "INSERT" -> "unlockIdx" [] kind \in {"REPLACE", "STORE"} -> "data"
    [] kind = "FETCH"  -> "read"      [] kind = "DELETE"               -> "mark"
AfterMiss(kind) ==
  CASE kind = "REPLACE" -> "unlockIdx" [] kind \in {"INSERT", "STORE"} -> "data"
    [] kind = "FETCH"   -> "missing"   [] kind = "DELETE"              -> "idle"

Found(h, found, d) ==
  LET kind == call[h].kind
      to   == IF found = "EXIST" THEN AfterExist(kind) ELSE AfterMiss(kind)
  IN /\ db' = [db EXCEPT ![h] = IF to = "idle" THEN NoDb ELSE [d EXCEPT !.found = found]]
     /\ call' = IF to = "idle" THEN [call EXCEPT ![h] = NoCall] ELSE call
     /\ GoTo(h, to)

FindBucket(h) ==
  LET first == Offset(idx, Bucket(Hash[call[h].key]))
      d     == [NoDb EXCEPT !.key_ptr_pos = first, !.idxoff = first]
  IN /\ At(h, "bucket")
     /\ IF first = 0 THEN Found(h, "FIRST", d)
        ELSE /\ db' = [db EXCEPT ![h] = d]
             /\ GoTo(h, "record")
             /\ UNCHANGED call
     /\ UNCHANGED <<files, lock>>

\* The process ends: exit, an exception, or a kill.  Its locks go with it.
Ended(h) ==
  /\ GoTo(h, "ended")
  /\ lock' = [f \in Files |-> [lock[f] EXCEPT ![h] = "UN"]]
  /\ call' = [call EXCEPT ![h] = NoCall]
  /\ db'   = [db EXCEPT ![h] = NoDb]

\* One turn of the loop; a record that cannot be read ends the program.
FindRecord(h) ==
  LET p    == db[h].idxoff
      next == Offset(idx, p + NextPtr)
      d    == [db[h] EXCEPT !.preidx = p + KeyRecord]
  IN /\ At(h, "record")
     /\ IF ~Readable(idx, p, KeyRecord)
          THEN Ended(h)
          ELSE /\ IF Word(idx, p + 1) = call[h].key
                    THEN Found(h, "EXIST", [d EXCEPT !.datoff = Offset(idx, p + DataPtr)])
                  ELSE IF next = 0 THEN Found(h, "NOTEXIST", d)
                  ELSE /\ db' = [db EXCEPT ![h] = [d EXCEPT !.idxoff = next]]
                       /\ UNCHANGED <<pc, call>>
               /\ UNCHANGED lock
     /\ UNCHANGED files

-----------------------------------------------------------------------------
(***************************************************************************)
(* _db_store.                                                              *)
(***************************************************************************)
\* The pointer of the record before is written one word too early.
NextOfLastEarly(f) == f.size - 3

NextOfLast(f) == f.size - 2

\* The file as the next record finds it: the record before points to it.
Linked == IF dat.size < Header + 6 THEN dat
          ELSE Written(dat, NextOfLast(dat), <<dat.size, 0>>)

DataText(h) == <<0, 1, call[h].value, 0, 0>>

\* The position of the record is asked for after the write.
WriteDataThenTell(h) ==
  /\ At(h, "data")
  /\ dat' = Written(Linked, dat.size, DataText(h))
  /\ db'  = [db EXCEPT ![h].record_pos = dat'.size]
  /\ GoTo(h, IF db[h].found = "EXIST" THEN "pointer" ELSE "key")
  /\ UNCHANGED <<idx, lock, call>>

WriteData(h) ==
  /\ At(h, "data")
  /\ dat' = Written(Linked, dat.size, DataText(h))
  /\ db'  = [db EXCEPT ![h].record_pos = dat.size]
  /\ GoTo(h, IF db[h].found = "EXIST" THEN "pointer" ELSE "key")
  /\ UNCHANGED <<idx, lock, call>>

\* The new key record points to the head of its chain.
KeyTextUncleared(h) == <<0, call[h].key>> \o Zeros(16)
                         \o <<db[h].record_pos, 0, db[h].key_ptr_pos, 0>>

KeyText(h) == <<0, call[h].key>> \o Zeros(16) \o <<db[h].record_pos, 0, 0, 0>>

WriteKey(h) ==
  /\ At(h, "key")
  /\ idx' = Written(idx, idx.size, KeyText(h))
  /\ db'  = [db EXCEPT ![h].new_key = idx.size]
  /\ GoTo(h, "pointer")
  /\ UNCHANGED <<dat, lock, call>>

\* Killed in the middle of an append.
Tear(h) ==
  /\ \E n \in Torn :
       \/ /\ At(h, "data")
          /\ dat' = Written(Linked, dat.size, SubSeq(DataText(h), 1, n))
          /\ UNCHANGED idx
       \/ /\ At(h, "key")
          /\ idx' = Written(idx, idx.size, SubSeq(KeyText(h), 1, n))
          /\ UNCHANGED dat
  /\ Ended(h)

\* Where the new record is linked: from the bucket, from the last key record of
\* the chain, or, for a replace, where the key record is taken to keep the
\* position of its data.
Pointer(h) ==
  CASE db[h].found = "FIRST"    -> [at |-> Bucket(Hash[call[h].key]), to |-> db[h].new_key]
    [] db[h].found = "NOTEXIST" -> [at |-> db[h].preidx - 2, to |-> db[h].new_key]
    [] db[h].found = "EXIST"    -> [at |-> db[h].idxoff + 1 + 16, to |-> db[h].record_pos]

WritePointer(h) ==
  /\ At(h, "pointer")
  /\ idx' = Written(idx, Pointer(h).at, <<Pointer(h).to, 0>>)
  /\ GoTo(h, "unlockIdx")
  /\ UNCHANGED <<dat, lock, call, db>>

-----------------------------------------------------------------------------
(***************************************************************************)
(* _db_delete: what it takes for the next pointer is the lower word of the *)
(* data pointer, and what it takes for the bucket is a word of another.    *)
(***************************************************************************)
MarkDeleted(h) ==
  /\ At(h, "mark")
  /\ idx' = Written(idx, db[h].idxoff, <<1>>)
  /\ GoTo(h, "unchain")
  /\ UNCHANGED <<dat, lock, call, db>>

Unchain(h) ==
  LET key_next_ptr == Word(idx, db[h].idxoff + 1 + 16 + 1)
      first        == db[h].key_ptr_pos = db[h].idxoff
  IN /\ At(h, "unchain")
     /\ idx' = Written(idx, IF first THEN Header + Hash[call[h].key]
                                     ELSE db[h].preidx + 1 + 16 + 1, <<key_next_ptr>>)
     /\ GoTo(h, "unlockIdx")
     /\ UNCHANGED <<dat, lock, call, db>>

-----------------------------------------------------------------------------
(***************************************************************************)
(* _db_fetch and tdb_fetch.                                                *)
(***************************************************************************)
Value(p) == IF Word(dat, p + 1) = 0 THEN Absent ELSE Word(dat, p + 2)

ReadData(h) ==
  LET p == db[h].datoff
  IN /\ At(h, "read")
     /\ IF Readable(dat, p, 2 + Word(dat, p + 1))
          THEN /\ call' = [call EXCEPT ![h].value = Value(p)]
               /\ GoTo(h, "unlockIdx")
               /\ UNCHANGED <<lock, db>>
          ELSE Ended(h)
     /\ UNCHANGED files

\* tdb_fetch builds a string from the null pointer: std::logic_error.
FetchMissing(h) ==
  /\ At(h, "missing")
  /\ Ended(h)
  /\ UNCHANGED files

-----------------------------------------------------------------------------
UnlockIdx(h) ==
  /\ At(h, "unlockIdx")
  /\ lock' = [lock EXCEPT !["idx"][h] = "UN"]
  /\ GoTo(h, "unlockDat")
  /\ UNCHANGED <<files, call, db>>

\* ... and return.
UnlockDat(h) ==
  /\ At(h, "unlockDat")
  /\ lock' = [lock EXCEPT !["dat"][h] = "UN"]
  /\ call' = [call EXCEPT ![h] = NoCall]
  /\ db'   = [db EXCEPT ![h] = NoDb]
  /\ GoTo(h, "idle")
  /\ UNCHANGED files

\* tdb_close closes the index file only: a lock on the data file stays.
Close(h) ==
  /\ At(h, "idle")
  /\ GoTo(h, "closed")
  /\ lock' = [lock EXCEPT !["idx"][h] = "UN"]
  /\ UNCHANGED <<files, call, db>>

Kill(h) ==
  /\ ~At(h, "ended")
  /\ Ended(h)
  /\ UNCHANGED files

\* _db_open of existing files for writing.
Open(h) ==
  /\ At(h, "ended")
  /\ GoTo(h, "idle")
  /\ UNCHANGED <<files, lock, call, db>>

Step(h) ==
  \/ LockIdx(h) \/ LockDat(h) \/ FindBucket(h) \/ FindRecord(h)
  \/ WriteData(h) \/ WriteKey(h) \/ WritePointer(h)
  \/ MarkDeleted(h) \/ Unchain(h)
  \/ ReadData(h) \/ FetchMissing(h)
  \/ UnlockIdx(h) \/ UnlockDat(h)

Next == \E h \in Handle : \/ \E c \in Calls : Begin(h, c)
                          \/ Step(h) \/ Tear(h) \/ Close(h) \/ Kill(h) \/ Open(h)

Spec == Init /\ [][Next]_vars

-----------------------------------------------------------------------------
(***************************************************************************)
(* What is in the files: the key records of a bucket's chain, in order,    *)
(* and the value a search would come to.                                   *)
(***************************************************************************)
Hops == 0 .. Cardinality(Key)

Chain(hash) ==
  LET record[n \in Hops] ==
        IF n = 0 THEN Offset(idx, Bucket(hash))
        ELSE LET before == record[n - 1]
             IN IF before = 0 THEN 0 ELSE Offset(idx, before + NextPtr)
  IN record

KeyAt(p)   == Word(idx, p + 1)
DatumAt(p) == Value(Offset(idx, p + DataPtr))

\* What a search comes to within n records from the key record p on.
Lookup(k) ==
  LET found[n \in Hops] == [p \in Nat |->
        IF p = 0 \/ n = 0 THEN Absent
        ELSE IF KeyAt(p) = k THEN DatumAt(p)
        ELSE found[n - 1][Offset(idx, p + NextPtr)]]
  IN found[Cardinality(Key)][Offset(idx, Bucket(Hash[k]))]

\* The steps of a call that write.
Writing(h)   == pc[h] \in {"data", "key", "pointer", "mark", "unchain"}
Searching(h) == pc[h] \in {"bucket", "record", "read"}

TypeOK ==
  /\ idx.size >= Header + 2 * Buckets /\ DOMAIN idx.words \subseteq 0 .. idx.size - 1
  /\ dat.size >= Header /\ DOMAIN dat.words \subseteq 0 .. dat.size - 1
  /\ lock \in [Files -> [Handle -> {"UN", "SH", "EX"}]]
  /\ pc \in [Handle -> {"idle", "lockIdx", "lockDat", "bucket", "record", "data", "key",
                        "pointer", "mark", "unchain", "read", "missing", "unlockIdx",
                        "unlockDat", "closed", "ended"}]
  /\ \A h \in Handle :
       /\ call[h].kind \in Kinds \cup {"NONE"}
       /\ call[h].key \in Key \cup {Absent} /\ call[h].value \in Data \cup {Absent}
       /\ pc[h] \in {"key", "pointer"} => Readable(dat, db[h].record_pos, DataRecord)

\* While a call writes to the files no other call reads or writes them, although
\* locks are converted and some are left behind (tmdb.cpp:385-391, 742-744).
Exclusive ==
  \A g, h \in Handle : g # h /\ Writing(g) => ~Writing(h) /\ ~Searching(h)

\* No two handles wait for each other: both files are locked in one order, and
\* no call returns with a lock (tmdb.cpp:385-391, 554-555, 678-679, 894-895).
WaitsFor(g, h) ==
  \E f \in Files :
    /\ pc[g] = IF f = "idx" THEN "lockIdx" ELSE "lockDat"
    /\ lock[f][h] # "UN" /\ {Wanted(call[g]), lock[f][h]} # {"SH"}

NoCircularWait == \A g, h \in Handle : g # h => ~(WaitsFor(g, h) /\ WaitsFor(h, g))

\* Whenever a process is killed, what can be reached from a bucket is whole: a
\* chain ends, holds each key once and only keys of its bucket, and each key
\* points to a whole data record (tmdb.cpp:592-679).
IndexSound ==
  \A k \in Key :
    LET chain == Chain(Hash[k])
        used  == {n \in Hops : chain[n] # 0}
    IN /\ chain[Cardinality(Key)] = 0
       /\ \A n \in used :
            /\ Readable(idx, chain[n], KeyRecord)
            /\ KeyAt(chain[n]) \in {j \in Key : Hash[j] = Hash[k]}
            /\ Readable(dat, Offset(idx, chain[n] + DataPtr), DataRecord)
            /\ DatumAt(chain[n]) \in Data
       /\ \A m, n \in used : KeyAt(chain[m]) = KeyAt(chain[n]) => m = n

\* Of what is in the data file only the pointer of the last record is ever
\* written again (tmdb.cpp:592-617).
DataAppendOnly ==
  [][\A p \in DOMAIN dat.words : p < dat.size - 2 => Word(dat', p) = Word(dat, p)]_vars

\* tmdb.cpp:506 "record not exist return TDB_OK, else replace data": when a
\* replace of a key that is there is done, the key has the new value; and
\* tmdb.cpp:714 "delete record": when a delete of a key that is there is done, the
\* key is not found any more.
ChangesTakeEffect ==
  [][\A h \in Handle : UnlockIdx(h) =>
       /\ call[h].kind = "REPLACE" /\ db[h].found = "EXIST"
            => Lookup(call[h].key) = call[h].value
       /\ call[h].kind = "DELETE" => Lookup(call[h].key) = Absent]_vars

-----------------------------------------------------------------------------
(***************************************************************************)
(* Handles that insert and fetch have the map of TmdbMap.                  *)
(***************************************************************************)
Phases == [h \in Handle |->
  IF pc[h] = "idle" THEN "idle" ELSE IF pc[h] \in {"closed", "ended"} THEN "ended"
  ELSE IF pc[h] \in {"unlockIdx", "unlockDat"} THEN "done" ELSE "called"]

Fetched == [h \in Handle |-> IF call[h].kind = "FETCH" THEN call[h].value ELSE Absent]

Asked == [h \in Handle |->
  IF call[h].kind = "FETCH" THEN [call[h] EXCEPT !.value = Absent] ELSE call[h]]

Map == INSTANCE TmdbMap WITH
  map <- [k \in Key |-> Lookup(k)], phase <- Phases, asked <- Asked, got <- Fetched

\* An insert or a fetch takes effect at one moment, whatever other handles do
\* and whichever of them are killed, and no value is ever lost or changed.
ImplementsMap == Map!Spec
=============================================================================
