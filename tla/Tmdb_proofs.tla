---------------------------- MODULE Tmdb_proofs ----------------------------
(***************************************************************************)
(* Proofs about Tmdb for any handles, keys, buckets and calls.             *)
(***************************************************************************)
EXTENDS Tmdb, TLAPS

(***************************************************************************)
(* The locks.  A call has both of its locks from the end of LockDat on, of *)
(* the kind it wants, and keeps them until it gives them back; what it     *)
(* does in between is what its kind of lock is for.                        *)
(***************************************************************************)
Searchers == {"bucket", "record", "read"}
Writers   == {"data", "key", "pointer", "mark", "unchain"}
Holders   == Searchers \cup Writers \cup {"missing", "unlockIdx"}

LockType ==
  /\ lock \in [Files -> [Handle -> {"UN", "SH", "EX"}]]
  /\ pc   \in [Handle -> Holders \cup {"idle", "lockIdx", "lockDat", "unlockDat",
                                       "closed", "ended"}]
  /\ DOMAIN call = Handle
  /\ \A h \in Handle : /\ DOMAIN call[h] = {"kind", "key", "value"}
                       /\ call[h].kind \in Kinds \cup {"NONE"}

\* An exclusive lock excludes every other lock on its file.
Compatible ==
  \A f \in Files : \A g, h \in Handle :
    g # h /\ lock[f][g] = "EX" => lock[f][h] = "UN"

HasLocks(h) ==
  /\ pc[h] \notin {"idle", "closed", "ended"} => call[h].kind \in Kinds
  /\ pc[h] \in Holders \cup {"lockDat"} => lock["idx"][h] = Wanted(call[h])
  /\ pc[h] \in Holders => lock["dat"][h] = Wanted(call[h])
  /\ pc[h] \in Writers => call[h].kind # "FETCH"
  /\ pc[h] \in {"read", "missing"} => call[h].kind = "FETCH"

LockInv == LockType /\ Compatible /\ \A h \in Handle : HasLocks(h)

\* Every call has the fields of a call, and a kind that the handles use.
LEMMA CallShape ==
  ASSUME NEW c \in Calls
  PROVE  DOMAIN c = {"kind", "key", "value"} /\ c.kind \in Kinds
  BY DEF Calls, Stores

\* What follows a search is a step that the call has the lock for, or its end.
LEMMA FoundKeepsLocks ==
  ASSUME LockInv, NEW h \in Handle, pc[h] \in {"bucket", "record"},
         NEW found, NEW d, Found(h, found, d), UNCHANGED lock
  PROVE  LockInv'
  <1> DEFINE kind == call[h].kind
             to   == IF found = "EXIST" THEN AfterExist(kind) ELSE AfterMiss(kind)
  <1>1. /\ pc' = [pc EXCEPT ![h] = to]
        /\ call' = IF to = "idle" THEN [call EXCEPT ![h] = NoCall] ELSE call
    BY DEF Found, GoTo
  <1>2. kind \in Kinds /\ Kinds \subseteq {"INSERT", "REPLACE", "STORE", "FETCH", "DELETE"}
    BY KindsAssumption DEF LockInv, HasLocks
  <1>3. to \in {"idle", "unlockIdx"} \/ (to \in Writers /\ kind # "FETCH")
          \/ (to \in {"read", "missing"} /\ kind = "FETCH")
    BY <1>2 DEF AfterExist, AfterMiss, Writers
  <1> HIDE DEF to
  <1>4. LockType'
    BY <1>1, <1>3 DEF LockInv, LockType, NoCall, Holders, Searchers, Writers
  <1>5. ASSUME NEW g \in Handle PROVE HasLocks(g)'
    BY <1>1, <1>3 DEF LockInv, LockType, HasLocks, NoCall, Holders, Searchers, Writers,
       Wanted
  <1> QED
    BY <1>4, <1>5 DEF LockInv, Compatible

\* The end of a process frees its locks and disturbs no other call.
LEMMA EndedKeepsLocks ==
  ASSUME LockInv, NEW h \in Handle, Ended(h)
  PROVE  LockInv'
  <1>1. LockType'
    BY DEF LockInv, LockType, Ended, GoTo, NoCall, Files
  <1>2. Compatible'
    BY DEF LockInv, LockType, Compatible, Ended, Files
  <1>3. ASSUME NEW g \in Handle PROVE HasLocks(g)'
    BY DEF LockInv, LockType, HasLocks, Ended, GoTo, NoCall, Holders, Searchers, Writers,
       Wanted, Files
  <1> QED
    BY <1>1, <1>2, <1>3 DEF LockInv

\* flock, shared or exclusive, converted or not.
LEMMA FlockKeepsLocks ==
  ASSUME LockInv, NEW h \in Handle, LockIdx(h) \/ LockDat(h)
  PROVE  LockInv'
  <1> DEFINE l == Wanted(call[h])
  <1>1. l \in {"SH", "EX"}
    BY DEF Wanted
  <1> DEFINE FlockStep(f, from, next) ==
        /\ pc[h] = from
        /\ \/ /\ \A g \in Handle \ {h} : lock[f][g] = "UN" \/ {l, lock[f][g]} = {"SH"}
              /\ lock' = [lock EXCEPT ![f][h] = l]
              /\ pc' = [pc EXCEPT ![h] = next]
           \/ /\ lock[f][h] \notin {"UN", l}
              /\ lock' = [lock EXCEPT ![f][h] = "UN"]
              /\ UNCHANGED pc
        /\ UNCHANGED call
  <1>2. FlockStep("idx", "lockIdx", "lockDat") \/ FlockStep("dat", "lockDat", "bucket")
    <2>1. CASE LockIdx(h)
      BY <2>1 DEF LockIdx, Flock, At, GoTo
    <2>2. CASE LockDat(h)
      BY <2>2 DEF LockDat, Flock, At, GoTo
    <2> QED
      BY <2>1, <2>2
  <1> HIDE DEF l
  <1>3. LockType'
    BY <1>1, <1>2 DEF LockInv, LockType, Holders, Searchers
  <1>4. Compatible'
    <2>1. PICK f \in Files :
            \/ /\ \A g \in Handle \ {h} : lock[f][g] # "EX" /\ (l = "EX" => lock[f][g] = "UN")
               /\ lock' = [lock EXCEPT ![f][h] = l]
            \/ lock' = [lock EXCEPT ![f][h] = "UN"]
      BY <1>1, <1>2 DEF Files
    <2> SUFFICES ASSUME NEW e \in Files, NEW a \in Handle, NEW b \in Handle,
                        a # b, lock'[e][a] = "EX"
                 PROVE  lock'[e][b] = "UN"
      BY DEF Compatible
    <2>2. lock[e][a] = "EX" => lock[e][b] = "UN"
      BY DEF LockInv, Compatible
    <2>3. lock[e] \in [Handle -> {"UN", "SH", "EX"}]
      BY DEF LockInv, LockType
    <2>4. CASE e # f
      BY <2>1, <2>2, <2>4 DEF LockInv, LockType
    <2>5. CASE e = f
      <3>1. \A l2 : [lock EXCEPT ![f][h] = l2][f] = [lock[f] EXCEPT ![h] = l2]
        BY DEF LockInv, LockType
      <3>2. CASE /\ \A g \in Handle \ {h} : lock[f][g] # "EX" /\ (l = "EX" => lock[f][g] = "UN")
                 /\ lock' = [lock EXCEPT ![f][h] = l]
        BY <1>1, <2>2, <2>3, <2>5, <3>1, <3>2
      <3>3. CASE lock' = [lock EXCEPT ![f][h] = "UN"]
        BY <2>2, <2>3, <2>5, <3>1, <3>3
      <3> QED
        BY <2>1, <3>2, <3>3
    <2> QED
      BY <2>4, <2>5
  <1>5. ASSUME NEW g \in Handle PROVE HasLocks(g)'
    BY <1>1, <1>2 DEF LockInv, LockType, HasLocks, Holders, Searchers, Writers, Wanted,
       Files, l
  <1> QED
    BY <1>3, <1>4, <1>5 DEF LockInv

\* The steps of a call between LockDat and the unlocks go on under its locks.
LEMMA HolderKeepsLocks ==
  ASSUME LockInv, NEW h \in Handle,
         \/ WriteData(h) \/ WriteKey(h) \/ WritePointer(h)
         \/ MarkDeleted(h) \/ Unchain(h) \/ (ReadData(h) /\ ~Ended(h))
  PROVE  LockInv'
  <1>1. PICK next \in Writers \cup {"unlockIdx"} :
          /\ pc[h] \in Writers \cup {"read"} /\ (pc[h] = "read" => next = "unlockIdx")
          /\ pc' = [pc EXCEPT ![h] = next]
          /\ UNCHANGED lock
          /\ UNCHANGED call \/ call' = [call EXCEPT ![h].value = Value(db[h].datoff)]
    BY DEF WriteData, WriteKey, WritePointer, MarkDeleted, Unchain, ReadData, At, GoTo,
       Writers
  <1>2. LockType' /\ \A g \in Handle : call'[g].kind = call[g].kind
    BY <1>1 DEF LockInv, LockType, Holders, Searchers, Writers
  <1>3. Compatible'
    BY <1>1 DEF LockInv, Compatible
  <1>4. ASSUME NEW g \in Handle PROVE HasLocks(g)'
    BY <1>1, <1>2 DEF LockInv, LockType, HasLocks, Holders, Searchers, Writers, Wanted
  <1> QED
    BY <1>2, <1>3, <1>4 DEF LockInv

\* Giving back the locks, and what a handle does outside a call.
LEMMA OutsideKeepsLocks ==
  ASSUME LockInv, NEW h \in Handle,
         \/ \E c \in Calls : Begin(h, c)
         \/ UnlockIdx(h) \/ UnlockDat(h) \/ Close(h) \/ Open(h)
  PROVE  LockInv'
  <1>1. LockType'
    BY CallShape DEF LockInv, LockType, Begin, UnlockIdx, UnlockDat, Close, Open, At, GoTo,
       NoCall, Files
  <1>2. Compatible'
    BY DEF LockInv, LockType, Compatible, Begin, UnlockIdx, UnlockDat, Close, Open, Files
  <1>3. ASSUME NEW g \in Handle PROVE HasLocks(g)'
    BY CallShape DEF LockInv, LockType, HasLocks, Begin, UnlockIdx, UnlockDat, Close, Open,
       At, GoTo, NoCall, Holders, Searchers, Writers, Wanted, Files
  <1> QED
    BY <1>1, <1>2, <1>3 DEF LockInv

\* Every call reads and writes the files under the locks that it wants, although
\* converting a lock is not atomic, a delete of a missing key leaves its locks
\* behind and processes end anywhere (tmdb.cpp:385-391, 742-744).
THEOREM Locking == Spec => []LockInv
  <1>1. Init => LockInv
    BY DEF Init, LockInv, LockType, Compatible, HasLocks, NoCall, Unlocked, Files, Holders,
       Searchers, Writers
  <1>2. LockInv /\ [Next]_vars => LockInv'
    <2> SUFFICES ASSUME LockInv, [Next]_vars PROVE LockInv'
      OBVIOUS
    <2>1. CASE UNCHANGED vars
      BY <2>1 DEF vars, LockInv, LockType, Compatible, HasLocks
    <2>2. ASSUME NEW h \in Handle, Tear(h) \/ Kill(h) \/ FetchMissing(h)
          PROVE  LockInv'
      BY <2>2, EndedKeepsLocks DEF Tear, Kill, FetchMissing
    <2>3. ASSUME NEW h \in Handle, Step(h)
          PROVE  LockInv'
      <3>1. CASE LockIdx(h) \/ LockDat(h)
        BY <3>1, FlockKeepsLocks
      <3>2. CASE FindBucket(h)
        <4>1. CASE \E found, d : Found(h, found, d)
          BY <3>2, <4>1, FoundKeepsLocks DEF FindBucket, At
        <4>2. CASE pc' = [pc EXCEPT ![h] = "record"] /\ UNCHANGED call
          BY <3>2, <4>2 DEF FindBucket, At, LockInv, LockType, Compatible, HasLocks,
             Holders, Searchers, Writers, Wanted
        <4> QED
          BY <3>2, <4>1, <4>2 DEF FindBucket, GoTo
      <3>3. CASE FindRecord(h)
        <4>1. CASE Ended(h)
          BY <4>1, EndedKeepsLocks
        <4>2. CASE (\E found, d : Found(h, found, d)) /\ UNCHANGED lock
          BY <3>3, <4>2, FoundKeepsLocks DEF FindRecord, At
        <4>3. CASE UNCHANGED <<lock, pc, call>>
          BY <4>3 DEF LockInv, LockType, Compatible, HasLocks
        <4> QED
          BY <3>3, <4>1, <4>2, <4>3 DEF FindRecord
      <3>4. CASE \/ WriteData(h) \/ WriteKey(h) \/ WritePointer(h)
                 \/ MarkDeleted(h) \/ Unchain(h) \/ ReadData(h)
        BY <3>4, HolderKeepsLocks, EndedKeepsLocks
      <3>5. CASE FetchMissing(h)
        BY <3>5, <2>2
      <3>6. CASE UnlockIdx(h) \/ UnlockDat(h)
        BY <3>6, OutsideKeepsLocks
      <3> QED
        BY <2>3, <3>1, <3>2, <3>3, <3>4, <3>5, <3>6 DEF Step
    <2>4. ASSUME NEW h \in Handle, (\E c \in Calls : Begin(h, c)) \/ Close(h) \/ Open(h)
          PROVE  LockInv'
      BY <2>4, OutsideKeepsLocks
    <2> QED
      BY <2>1, <2>2, <2>3, <2>4 DEF Next
  <1> QED
    BY <1>1, <1>2, PTL DEF Spec

\* No call reads or writes the files while another one writes them.
THEOREM Exclusion == Spec => []Exclusive
  <1>1. LockInv => Exclusive
    BY DEF LockInv, Compatible, HasLocks, Exclusive, Writing, Searching, Holders, Searchers,
       Writers, Wanted, Files
  <1> QED
    BY <1>1, Locking, PTL

-----------------------------------------------------------------------------
(***************************************************************************)
(* The order of the locks, without deletes.  A handle outside its calls    *)
(* holds no lock, so that each call locks the index file first and then    *)
(* the data file, and no lock is ever converted.                           *)
(***************************************************************************)
InOrder(h) ==
  /\ pc[h] \in {"idle", "lockIdx", "unlockDat", "closed", "ended"} => lock["idx"][h] = "UN"
  /\ pc[h] \in {"idle", "lockIdx", "lockDat", "closed", "ended"} => lock["dat"][h] = "UN"
  /\ pc[h] \notin {"mark", "unchain"}

OrderInv == \A h \in Handle : InOrder(h)

\* Without deletes a search is followed by the other steps of the call, which hold
\* their locks until they give them back.
LEMMA SearchInOrder ==
  ASSUME LockInv, OrderInv, "DELETE" \notin Kinds, NEW h \in Handle,
         FindBucket(h) \/ (FindRecord(h) /\ ~Ended(h))
  PROVE  OrderInv'
  <1>1. /\ pc[h] \in {"bucket", "record"} /\ UNCHANGED lock
        /\ call[h].kind \in {"INSERT", "REPLACE", "STORE", "FETCH"}
    BY KindsAssumption DEF FindBucket, FindRecord, At, LockInv, HasLocks
  <1>2. \/ pc' = pc
        \/ \E to \in {"record", "data", "read", "missing", "unlockIdx"} :
             pc' = [pc EXCEPT ![h] = to]
    BY <1>1 DEF FindBucket, FindRecord, Found, AfterExist, AfterMiss, GoTo
  <1> QED
    BY <1>1, <1>2 DEF LockInv, LockType, OrderInv, InOrder

\* The end of a process frees its locks.
LEMMA EndedInOrder ==
  ASSUME LockInv, OrderInv, NEW h \in Handle, Ended(h)
  PROVE  OrderInv'
  BY DEF LockInv, LockType, OrderInv, InOrder, Ended, GoTo, Files

\* No handle outside its calls holds a lock, as long as no call deletes.
THEOREM LockOrder ==
  ASSUME "DELETE" \notin Kinds
  PROVE  Spec => [](LockInv /\ OrderInv)
  <1>1. Init => OrderInv
    <2> SUFFICES ASSUME Init, NEW h \in Handle PROVE InOrder(h)
      BY DEF OrderInv
    <2>1. lock["idx"][h] = "UN" /\ lock["dat"][h] = "UN" /\ pc[h] = "idle"
      BY DEF Init, Unlocked, Files
    <2> QED
      BY <2>1 DEF InOrder
  <1>2. LockInv /\ OrderInv /\ [Next]_vars => OrderInv'
    <2> SUFFICES ASSUME LockInv, OrderInv, [Next]_vars PROVE OrderInv'
      OBVIOUS
    <2>1. CASE UNCHANGED vars
      BY <2>1 DEF vars, OrderInv, InOrder
    <2>2. ASSUME NEW h \in Handle, Ended(h) PROVE OrderInv'
      BY <2>2, EndedInOrder
    <2>3. ASSUME NEW h \in Handle, LockIdx(h) PROVE OrderInv'
      <3>1. lock["idx"][h] = "UN" /\ pc[h] = "lockIdx" /\ Wanted(call[h]) \in {"SH", "EX"}
        BY <2>3 DEF LockIdx, At, OrderInv, InOrder, Wanted
      <3>2. /\ lock' = [lock EXCEPT !["idx"][h] = Wanted(call[h])]
            /\ pc' = [pc EXCEPT ![h] = "lockDat"]
        BY <2>3, <3>1 DEF LockIdx, Flock, GoTo
      <3> QED
        BY <3>1, <3>2 DEF LockInv, LockType, OrderInv, InOrder, Files
    <2>4. ASSUME NEW h \in Handle, LockDat(h) PROVE OrderInv'
      <3>1. lock["dat"][h] = "UN" /\ pc[h] = "lockDat" /\ Wanted(call[h]) \in {"SH", "EX"}
        BY <2>4 DEF LockDat, At, OrderInv, InOrder, Wanted
      <3>2. /\ lock' = [lock EXCEPT !["dat"][h] = Wanted(call[h])]
            /\ pc' = [pc EXCEPT ![h] = "bucket"]
        BY <2>4, <3>1 DEF LockDat, Flock, GoTo
      <3> QED
        BY <3>1, <3>2 DEF LockInv, LockType, OrderInv, InOrder, Files
    <2>5. ASSUME NEW h \in Handle, WriteData(h) \/ WriteKey(h) \/ WritePointer(h) \/ ReadData(h)
          PROVE  OrderInv'
      <3>1. CASE Ended(h)
        BY <3>1, <2>2
      <3>2. CASE ~Ended(h)
        <4>1. /\ pc[h] \in {"data", "key", "pointer", "read"} /\ UNCHANGED lock
              /\ \E to \in {"key", "pointer", "unlockIdx"} : pc' = [pc EXCEPT ![h] = to]
          BY <2>5, <3>2 DEF WriteData, WriteKey, WritePointer, ReadData, At, GoTo
        <4> QED
          BY <4>1 DEF LockInv, LockType, OrderInv, InOrder
      <3> QED
        BY <3>1, <3>2
    <2>6. ASSUME NEW h \in Handle,
                 \/ \E c \in Calls : Begin(h, c)
                 \/ UnlockIdx(h) \/ UnlockDat(h) \/ Close(h) \/ Open(h)
          PROVE  OrderInv'
      BY <2>6 DEF LockInv, LockType, OrderInv, InOrder, Begin, UnlockIdx, UnlockDat, Close,
         Open, At, GoTo, Files
    <2>7. ASSUME NEW h \in Handle, MarkDeleted(h) \/ Unchain(h) PROVE FALSE
      BY <2>7 DEF MarkDeleted, Unchain, At, OrderInv, InOrder
    <2>8. ASSUME NEW h \in Handle, Tear(h) \/ Kill(h) \/ FetchMissing(h) PROVE OrderInv'
      BY <2>8, <2>2 DEF Tear, Kill, FetchMissing
    <2>9. ASSUME NEW h \in Handle, FindBucket(h) \/ FindRecord(h) PROVE OrderInv'
      BY <2>9, <2>2, SearchInOrder
    <2> QED
      BY <2>1, <2>3, <2>4, <2>5, <2>6, <2>7, <2>8, <2>9 DEF Next, Step
  <1> QED
    BY <1>1, <1>2, Locking, PTL DEF Spec

\* Without deletes no two handles wait for each other (tmdb.cpp:385-391, 554-555,
\* 678-679, 894-895).
THEOREM NoDeadlock ==
  ASSUME "DELETE" \notin Kinds
  PROVE  Spec => []NoCircularWait
  <1>1. LockInv /\ OrderInv => NoCircularWait
    BY DEF OrderInv, InOrder, NoCircularWait, WaitsFor, Files
  <1> QED
    BY <1>1, LockOrder, PTL

\* A handle waits for one that holds the index file, that one for one that holds
\* the data file, and this one for none.
WaitsEnd == \A g, h, k, m \in Handle : ~(WaitsFor(g, h) /\ WaitsFor(h, k) /\ WaitsFor(k, m))

\* Without deletes there is no circle of any length (tmdb.cpp:385-391).
THEOREM NoLongerCircle ==
  ASSUME "DELETE" \notin Kinds
  PROVE  Spec => []WaitsEnd
  <1>1. LockInv /\ OrderInv => WaitsEnd
    BY DEF OrderInv, InOrder, WaitsEnd, WaitsFor, Files
  <1> QED
    BY <1>1, LockOrder, PTL

-----------------------------------------------------------------------------
(***************************************************************************)
(* The data file.                                                          *)
(***************************************************************************)
IsFile(f) == f.size \in Nat /\ DOMAIN f.words \subseteq Nat

\* Writing at a position leaves everything in front of it alone, and no file
\* ever gets shorter.
LEMMA WrittenBefore ==
  ASSUME NEW f, IsFile(f), NEW p \in Nat, NEW text, Len(text) \in Nat
  PROVE  /\ IsFile(Written(f, p, text))
         /\ Written(f, p, text).size >= f.size
         /\ \A q \in Nat : q < p => Word(Written(f, p, text), q) = Word(f, q)
  BY DEF IsFile, Written, Word

\* An append, or a part of one, with the pointer of the last record in front.
LEMMA Appended ==
  ASSUME IsFile(dat), dat.size >= Header, NEW text, Len(text) \in Nat,
         dat' = Written(Linked, dat.size, text)
  PROVE  /\ IsFile(dat') /\ dat'.size >= Header
         /\ \A p \in Nat : p < dat.size - 2 => Word(dat', p) = Word(dat, p)
  <1>1. NextOfLast(dat) \in Nat /\ Len(<<dat.size, 0>>) \in Nat
    BY DEF NextOfLast, Header, IsFile
  <1>2. /\ IsFile(Linked) /\ Linked.size >= dat.size
        /\ \A p \in Nat : p < dat.size - 2 => Word(Linked, p) = Word(dat, p)
    <2>1. CASE Linked = dat
      BY <2>1 DEF IsFile
    <2>2. CASE Linked = Written(dat, NextOfLast(dat), <<dat.size, 0>>)
      BY <1>1, <2>2, WrittenBefore DEF NextOfLast, IsFile
    <2> QED
      BY <2>1, <2>2 DEF Linked
  <1>3. /\ IsFile(dat') /\ dat'.size >= Linked.size
        /\ \A p \in Nat : p < dat.size => Word(dat', p) = Word(Linked, p)
    BY <1>2, WrittenBefore DEF IsFile
  <1> QED
    BY <1>2, <1>3 DEF IsFile, Header

DatInv == IsFile(dat) /\ dat.size >= Header

\* Every step leaves the data file alone or appends to it.
LEMMA DatStep ==
  ASSUME DatInv, [Next]_vars
  PROVE  DatInv' /\ \A p \in Nat : p < dat.size - 2 => Word(dat', p) = Word(dat, p)
  <1>1. CASE UNCHANGED dat
    BY <1>1 DEF DatInv, IsFile, Word
  <1>2. ASSUME NEW h \in Handle, WriteData(h)
        PROVE  dat' = Written(Linked, dat.size, DataText(h)) /\ Len(DataText(h)) \in Nat
    BY <1>2 DEF WriteData, DataText
  <1>3. ASSUME NEW h \in Handle, Tear(h), ~UNCHANGED dat
        PROVE  \E text : dat' = Written(Linked, dat.size, text) /\ Len(text) \in Nat
    <2>1. PICK n \in Torn : dat' = Written(Linked, dat.size, SubSeq(DataText(h), 1, n))
      BY <1>3 DEF Tear
    <2>2. Len(SubSeq(DataText(h), 1, n)) \in Nat
      BY BoundsAssumption DEF DataText
    <2> QED
      BY <2>1, <2>2
  <1>4. \/ UNCHANGED dat
        \/ \E h \in Handle : WriteData(h) \/ Tear(h)
    BY DEF Next, Begin, Step, LockIdx, LockDat, Flock, FindBucket, FindRecord, WriteKey,
       WritePointer, MarkDeleted, Unchain, ReadData, FetchMissing, UnlockIdx, UnlockDat,
       Close, Kill, Open, files, vars
  <1> QED
    BY <1>1, <1>2, <1>3, <1>4, Appended DEF DatInv

\* Of what is in the data file only the pointer of the last record is ever
\* written again, whatever the handles call and wherever they are killed
\* (tmdb.cpp:592-617).
THEOREM AppendOnly == Spec => DataAppendOnly
  <1>1. Init => DatInv
    BY DEF Init, DatInv, IsFile, NewFile, Header
  <1>2. DatInv /\ [Next]_vars => DatInv'
    BY DatStep
  <1>3. DatInv /\ [Next]_vars =>
          [\A p \in DOMAIN dat.words : p < dat.size - 2 => Word(dat', p) = Word(dat, p)]_vars
    BY DatStep DEF DatInv, IsFile
  <1> QED
    BY <1>1, <1>2, <1>3, PTL DEF Spec, DataAppendOnly
=============================================================================
