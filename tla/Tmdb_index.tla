------------------------------ MODULE Tmdb_index ------------------------------
(***************************************************************************)
(* Proofs about the index of Tmdb, without deletes: chains stay whole,     *)
(* and handles that insert and fetch have the map of TmdbMap.              *)
(***************************************************************************)
EXTENDS Tmdb_proofs, FiniteSetTheorems, SequenceTheorems, WellFoundedInduction

-----------------------------------------------------------------------------
(***************************************************************************)
(* The files: f is an index file, d a data file, and C the set of the key  *)
(* records that are linked.                                                *)
(***************************************************************************)
KeyIn(f, p) == Word(f, p + 1)

PtrIn(f, p) == Word(f, p + DataPtr)

DatumIn(d, p) == IF Word(d, p + 1) = 0 THEN Absent ELSE Word(d, p + 2)

\* The linked records of a bucket.
InBucket(f, C, b) == {p \in C : Hash[KeyIn(f, p)] = b}

\* Where a pointer of a bucket leads to: to the first of its records after
\* a position, and nowhere only if there is none.
Leads(B, from, w) ==
  IF w = 0 THEN \A q \in B : q <= from
  ELSE w \in B /\ w > from /\ \A q \in B : q > from => w <= q

\* A whole record in the data file; no record is at 0.
Whole(d, p) == p \in Nat /\ p >= Header /\ p + DataRecord <= d.size /\ DatumIn(d, p) \in Data

\* A replace takes the data pointer away, nothing else does.
HasDatum(f, d, p) ==
  /\ Word(f, p + DataPtr + 1) = 0
  /\ \/ Whole(d, PtrIn(f, p))
     \/ PtrIn(f, p) = 0 /\ Kinds \cap {"REPLACE", "STORE"} # {}

IsIndex(f, d, C) ==
  /\ IsFile(f) /\ f.size >= Header + 2 * Buckets
  /\ \A p \in C : /\ p >= Header + 2 * Buckets /\ p + KeyRecord <= f.size
                  /\ KeyIn(f, p) \in Key
                  /\ HasDatum(f, d, p)
                  /\ Leads(InBucket(f, C, Hash[KeyIn(f, p)]), p, Offset(f, p + NextPtr))
  /\ \A p, q \in C : p < q => p + KeyRecord <= q /\ KeyIn(f, p) # KeyIn(f, q)
  /\ \A b \in 0 .. Buckets - 1 : Leads(InBucket(f, C, b), 0, Offset(f, Bucket(b)))

\* At 0 there is no data.
IsData(d) == IsFile(d) /\ d.size >= Header /\ \A p \in 0 .. Header - 1 : Word(d, p) = 0

\* The files in these sizes only.
Inside(f) == DOMAIN f.words \subseteq 0 .. f.size - 1

-----------------------------------------------------------------------------
(***************************************************************************)
(* What a call knows of the files.                                         *)
(***************************************************************************)
\* The call of a handle; a fetch that is done has its value.
InCall(h) ==
  IF pc[h] \in {"idle", "closed", "ended"} THEN call[h] = NoCall
  ELSE \/ call[h] \in Calls
       \/ /\ pc[h] \in {"unlockIdx", "unlockDat"} /\ "FETCH" \in Kinds
          /\ \E k \in Key, v \in Data \cup {Absent} :
               call[h] = [kind |-> "FETCH", key |-> k, value |-> v]

\* No record has the key.
Missing(h, C) == \A q \in C : KeyIn(idx, q) # call[h].key

\* The records of its bucket.
Mine(h, C) == InBucket(idx, C, Hash[call[h].key])

\* The record of the search has been reached along the chain, past other keys.
Reached(h, C) ==
  /\ db[h].idxoff \in Mine(h, C)
  /\ \A q \in Mine(h, C) : q < db[h].idxoff => KeyIn(idx, q) # call[h].key

\* What the search of a store has come to.
Outcome(h, C) ==
  \/ db[h].found = "FIRST" /\ Mine(h, C) = {} /\ Missing(h, C)
  \/ /\ db[h].found = "NOTEXIST" /\ Missing(h, C)
     /\ \E p \in Mine(h, C) : db[h].preidx = p + KeyRecord /\ \A q \in Mine(h, C) : q <= p
  \/ db[h].found = "EXIST" /\ call[h].kind # "INSERT" /\ db[h].idxoff \in C

\* The data record that a store has written.
DataWritten(h) == Whole(dat, db[h].record_pos) /\ DatumIn(dat, db[h].record_pos) = call[h].value

\* The key record that a store has written and not yet linked.
KeyWritten(h, C) ==
  LET p == db[h].new_key
  IN /\ p \in Nat /\ p >= Header + 2 * Buckets /\ p + KeyRecord <= idx.size
     /\ \A q \in C : q + KeyRecord <= p
     /\ KeyIn(idx, p) = call[h].key
     /\ PtrIn(idx, p) = db[h].record_pos /\ Word(idx, p + DataPtr + 1) = 0
     /\ Offset(idx, p + NextPtr) = 0

Knows(h, C) ==
  /\ pc[h] = "record" => Reached(h, C)
  /\ pc[h] \in {"data", "key", "pointer"} => call[h].kind \in Stores /\ Outcome(h, C)
  /\ pc[h] \in {"key", "pointer"} => DataWritten(h)
  /\ pc[h] = "key" => db[h].found # "EXIST"
  /\ pc[h] = "pointer" /\ db[h].found # "EXIST" => KeyWritten(h, C)
  /\ pc[h] = "read" => \E p \in C : /\ KeyIn(idx, p) = call[h].key
                                    /\ db[h].datoff = PtrIn(idx, p)
  /\ pc[h] = "missing" => Missing(h, C)

\* What a handle is left with has the fields of NoDb.
DbType == DOMAIN db = Handle /\ \A h \in Handle : DOMAIN db[h] = DOMAIN NoDb

FilesInv ==
  IsData(dat) /\ Inside(idx) /\ Inside(dat) /\ DbType /\ \A h \in Handle : InCall(h)

Linking(C) == IsIndex(idx, dat, C) /\ \A h \in Handle : Knows(h, C)

IndexInv == FilesInv /\ \E C \in SUBSET Nat : Linking(C)

-----------------------------------------------------------------------------
(***************************************************************************)
(* What writing does to the files.                                         *)
(***************************************************************************)
LEMMA WordWritten ==
  ASSUME NEW f, IsFile(f), NEW p \in Nat, NEW text, Len(text) \in Nat
  PROVE  /\ IsFile(Written(f, p, text))
         /\ Written(f, p, text).size =
              IF p + Len(text) > f.size THEN p + Len(text) ELSE f.size
         /\ Inside(f) => Inside(Written(f, p, text))
         /\ \A q \in Nat : Word(Written(f, p, text), q) =
              IF p <= q /\ q < p + Len(text) THEN text[q - p + 1] ELSE Word(f, q)
<1> DEFINE end    == p + Len(text)
           at(q)  == IF q \in p .. end - 1 THEN text[q - p + 1] ELSE Word(f, q)
           places == {q \in DOMAIN f.words \cup p .. end - 1 : at(q) # 0}
           g      == Written(f, p, text)
<1>1. g = [size |-> IF end > f.size THEN end ELSE f.size, words |-> [q \in places |-> at(q)]]
  BY DEF Written
<1>2. /\ g.size = IF end > f.size THEN end ELSE f.size
      /\ DOMAIN g.words = places
      /\ \A q \in places : g.words[q] = at(q)
  BY <1>1
<1>3. places \subseteq Nat
  BY DEF IsFile
<1>4. ASSUME NEW q \in Nat
      PROVE  Word(g, q) = IF p <= q /\ q < end THEN text[q - p + 1] ELSE Word(f, q)
  <2>1. Word(g, q) = IF q \in places THEN at(q) ELSE 0
    BY <1>2 DEF Word
  <2>2. q \notin places => at(q) = 0
    BY DEF Word
  <2>3. Word(g, q) = at(q)
    BY <2>1, <2>2
  <2> QED
    BY <2>3
<1>5. Inside(f) => Inside(g)
  BY <1>2 DEF Inside, IsFile
<1> QED
  BY <1>2, <1>3, <1>4, <1>5 DEF IsFile

\* g is f with two words written at a.
TwoWords(f, a, text, g) ==
  /\ IsFile(g) /\ (Inside(f) => Inside(g))
  /\ g.size = IF a + 2 > f.size THEN a + 2 ELSE f.size
  /\ Word(g, a) = text[1] /\ Word(g, a + 1) = text[2]
  /\ \A q \in Nat : q # a /\ q # a + 1 => Word(g, q) = Word(f, q)

LEMMA TwoWordsWritten ==
  ASSUME NEW f, IsFile(f), NEW a \in Nat, NEW text, Len(text) = 2
  PROVE  TwoWords(f, a, text, Written(f, a, text))
<1> DEFINE g == Written(f, a, text)
<1>1. Len(text) \in Nat
  OBVIOUS
<1>2. IsFile(g) /\ (Inside(f) => Inside(g))
  BY <1>1, WordWritten
<1>3. g.size = IF a + Len(text) > f.size THEN a + Len(text) ELSE f.size
  BY <1>1, WordWritten
<1>4. \A q \in Nat : Word(g, q) =
        IF a <= q /\ q < a + Len(text) THEN text[q - a + 1] ELSE Word(f, q)
  BY <1>1, WordWritten
<1> HIDE DEF g
<1>5. Word(g, a) = text[1] /\ Word(g, a + 1) = text[2]
  <2>1. Word(g, a) = text[a - a + 1] /\ Word(g, a + 1) = text[a + 1 - a + 1]
    BY <1>4
  <2>2. a - a + 1 = 1 /\ a + 1 - a + 1 = 2
    OBVIOUS
  <2> QED
    BY <2>1, <2>2
<1>6. TwoWords(f, a, text, g)
  BY <1>2, <1>3, <1>4, <1>5 DEF IsFile, TwoWords
<1> QED
  BY <1>6 DEF g

\* g is f with the pointer at a made to point to w.
Pointed(f, a, w, g) ==
  /\ IsFile(g) /\ g.size = f.size /\ (Inside(f) => Inside(g))
  /\ Word(g, a) = w /\ Word(g, a + 1) = 0
  /\ \A q \in Nat : q # a /\ q # a + 1 => Word(g, q) = Word(f, q)

LEMMA PointerWritten ==
  ASSUME NEW f, IsFile(f), NEW a \in Nat, a + 2 <= f.size, NEW w
  PROVE  Pointed(f, a, w, Written(f, a, <<w, 0>>))
<1> DEFINE g == Written(f, a, <<w, 0>>)
<1>1. Len(<<w, 0>>) = 2
  OBVIOUS
<1>2. TwoWords(f, a, <<w, 0>>, Written(f, a, <<w, 0>>))
  BY <1>1, TwoWordsWritten, Zenon
<1>3. TwoWords(f, a, <<w, 0>>, g)
  BY <1>2, Zenon
<1> HIDE DEF g
<1>4. Pointed(f, a, w, g)
  BY <1>3 DEF TwoWords, Pointed, IsFile
<1> QED
  BY <1>4 DEF g

\* Files that have grown still hold the index.
LEMMA IndexKept ==
  ASSUME NEW f, NEW d, NEW C \in SUBSET Nat, IsIndex(f, d, C),
         NEW g, NEW e, IsFile(g), g.size >= f.size,
         \A q \in Nat : q < f.size => Word(g, q) = Word(f, q),
         \A p : Whole(d, p) => Whole(e, p)
  PROVE  /\ IsIndex(g, e, C)
         /\ \A p \in C : /\ KeyIn(g, p) = KeyIn(f, p)
                         /\ PtrIn(g, p) = PtrIn(f, p)
         /\ \A b : InBucket(g, C, b) = InBucket(f, C, b)
<1>1. f.size \in Nat /\ g.size \in Nat /\ Header + 2 * Buckets \in Nat
  BY HashAssumption DEF IsIndex, IsFile, Header
<1>2. \A p \in C : p \in Nat /\ p + KeyRecord <= f.size
  BY DEF IsIndex
<1>3. \A p \in C : /\ KeyIn(g, p) = KeyIn(f, p)
                   /\ PtrIn(g, p) = PtrIn(f, p)
                   /\ Word(g, p + DataPtr + 1) = Word(f, p + DataPtr + 1)
                   /\ Offset(g, p + NextPtr) = Offset(f, p + NextPtr)
  BY <1>1, <1>2 DEF KeyIn, Offset, DataPtr, NextPtr, KeyRecord, PtrIn
<1>4. \A b : InBucket(g, C, b) = InBucket(f, C, b)
  BY <1>3 DEF InBucket
<1>5. \A b \in 0 .. Buckets - 1 : Offset(g, Bucket(b)) = Offset(f, Bucket(b))
  <2> SUFFICES ASSUME NEW b \in 0 .. Buckets - 1
               PROVE  Offset(g, Bucket(b)) = Offset(f, Bucket(b))
    OBVIOUS
  <2>1. /\ Bucket(b) \in Nat /\ Bucket(b) < f.size
        /\ Bucket(b) + 1 \in Nat /\ Bucket(b) + 1 < f.size
    BY <1>1, HashAssumption DEF Bucket, Header, IsIndex
  <2> QED
    BY <2>1 DEF Offset
<1>6. ASSUME NEW p \in C
      PROVE  /\ p >= Header + 2 * Buckets /\ p + KeyRecord <= g.size
             /\ KeyIn(g, p) \in Key
             /\ HasDatum(g, e, p)
             /\ Leads(InBucket(g, C, Hash[KeyIn(g, p)]), p, Offset(g, p + NextPtr))
  <2>1. p >= Header + 2 * Buckets /\ p + KeyRecord <= g.size
    BY <1>1, <1>2 DEF IsIndex, KeyRecord
  <2>2. HasDatum(g, e, p)
    BY <1>3 DEF IsIndex, HasDatum
  <2>3. /\ KeyIn(f, p) \in Key
        /\ Leads(InBucket(f, C, Hash[KeyIn(f, p)]), p, Offset(f, p + NextPtr))
    BY DEF IsIndex
  <2> QED
    BY <1>3, <1>4, <2>1, <2>2, <2>3
<1>7. \A p, q \in C : p < q => p + KeyRecord <= q /\ KeyIn(g, p) # KeyIn(g, q)
  BY <1>3 DEF IsIndex
<1>8. \A b \in 0 .. Buckets - 1 : Leads(InBucket(g, C, b), 0, Offset(g, Bucket(b)))
  BY <1>4, <1>5 DEF IsIndex
<1>9. g.size >= Header + 2 * Buckets
  BY <1>1 DEF IsIndex
<1> QED
  BY <1>3, <1>4, <1>6, <1>7, <1>8, <1>9 DEF IsIndex

\* Where a new record of a bucket is linked: at the bucket, or at its last record.
End(f, C, b, a) ==
  \/ InBucket(f, C, b) = {} /\ a = Bucket(b)
  \/ \E p \in InBucket(f, C, b) :
       a = p + NextPtr /\ \A q \in InBucket(f, C, b) : q <= p

\* g is f with r linked as well.
Extended(f, d, C, r, g) ==
  /\ IsIndex(g, d, C \cup {r}) /\ (Inside(f) => Inside(g))
  /\ \A p \in C \cup {r} : KeyIn(g, p) = KeyIn(f, p) /\ PtrIn(g, p) = PtrIn(f, p)

\* Linking a record behind all others makes it the last one of its bucket.
LEMMA IndexLinked ==
  ASSUME NEW f, NEW d, NEW C \in SUBSET Nat, IsIndex(f, d, C),
         NEW r \in Nat, r >= Header + 2 * Buckets, r + KeyRecord <= f.size,
         \A q \in C : q + KeyRecord <= r /\ KeyIn(f, q) # KeyIn(f, r),
         KeyIn(f, r) \in Key, HasDatum(f, d, r), Offset(f, r + NextPtr) = 0,
         NEW a, End(f, C, Hash[KeyIn(f, r)], a),
         NEW g, g = Written(f, a, <<r, 0>>)
  PROVE  Extended(f, d, C, r, g)
<1> DEFINE D == C \cup {r}
           b == Hash[KeyIn(f, r)]
           B == InBucket(f, C, b)
           first == Header + 2 * Buckets
<1>1. /\ f.size \in Nat /\ IsFile(f) /\ first <= f.size
      /\ Buckets \in Nat /\ b \in 0 .. Buckets - 1 /\ first \in Nat /\ first > 0
      /\ D \in SUBSET Nat
  BY HashAssumption DEF IsIndex, IsFile, Header
<1>2. /\ \A p \in D : p >= first /\ p + 22 <= f.size
      /\ \A p, q \in D : p < q => p + 22 <= q
  BY <1>1 DEF IsIndex, KeyRecord
<1>3. a \in Nat /\ \/ B = {} /\ a = Bucket(b)
                   \/ a - 20 \in B /\ \A q \in B : q <= a - 20
  <2>1. CASE B = {} /\ a = Bucket(b)
    BY <1>1, <2>1 DEF Bucket, Header
  <2>2. CASE \E p \in B : a = p + NextPtr /\ \A q \in B : q <= p
    <3>1. PICK p \in B : a = p + NextPtr /\ \A q \in B : q <= p
      BY <2>2
    <3>2. p \in Nat /\ a = p + 20 /\ a - 20 = p
      BY <3>1 DEF InBucket, NextPtr
    <3> QED
      BY <3>1, <3>2
  <2> QED
    BY <2>1, <2>2 DEF End
<1>4. a + 2 <= f.size /\ (a + 2 <= first \/ a - 20 \in C)
  BY <1>1, <1>2, <1>3 DEF Bucket, Header, InBucket
<1>5. /\ IsFile(g) /\ g.size = f.size /\ (Inside(f) => Inside(g))
      /\ Word(g, a) = r /\ Word(g, a + 1) = 0
      /\ \A q \in Nat : q # a /\ q # a + 1 => Word(g, q) = Word(f, q)
  <2>1. Pointed(f, a, r, Written(f, a, <<r, 0>>))
    BY <1>1, <1>3, <1>4, PointerWritten
  <2>2. Pointed(f, a, r, g)
    BY <2>1, Zenon
  <2> QED
    BY <2>2 DEF Pointed
<1>6. /\ Offset(g, a) = r
      /\ \A q \in Nat : q + 1 < a \/ q > a + 1 => Offset(g, q) = Offset(f, q)
  BY <1>3, <1>5 DEF Offset
<1>7. \A p \in D : /\ KeyIn(g, p) = KeyIn(f, p)
                   /\ PtrIn(g, p) = PtrIn(f, p)
                   /\ Word(g, p + DataPtr + 1) = Word(f, p + DataPtr + 1)
                   /\ p + NextPtr # a => Offset(g, p + NextPtr) = Offset(f, p + NextPtr)
  <2> SUFFICES ASSUME NEW p \in D
               PROVE  /\ KeyIn(g, p) = KeyIn(f, p)
                      /\ PtrIn(g, p) = PtrIn(f, p)
                      /\ Word(g, p + DataPtr + 1) = Word(f, p + DataPtr + 1)
                      /\ p + NextPtr # a => Offset(g, p + NextPtr) = Offset(f, p + NextPtr)
    OBVIOUS
  <2>1. a + 2 <= p \/ p + 22 <= a \/ p = a - 20
    <3>1. CASE a + 2 <= first
      BY <1>1, <1>2, <1>3, <3>1
    <3>2. CASE a - 20 \in C
      BY <1>1, <1>2, <1>3, <3>2
    <3> QED
      BY <1>4, <3>1, <3>2
  <2>2. p \in Nat
    BY <1>1
  <2> QED
    BY <1>3, <1>5, <1>6, <2>1, <2>2 DEF KeyIn, DataPtr, NextPtr, PtrIn
<1>8. \A p \in C : p < r /\ KeyIn(f, p) \in Key /\ Hash[KeyIn(f, p)] \in 0 .. Buckets - 1
  BY HashAssumption DEF IsIndex, KeyRecord
<1>9. \A c : InBucket(g, D, c) = IF c = b THEN B \cup {r} ELSE InBucket(f, C, c)
  BY <1>7 DEF InBucket
<1>10. ASSUME NEW c \in 0 .. Buckets - 1
       PROVE  Leads(InBucket(g, D, c), 0, Offset(g, Bucket(c)))
  <2>1. Leads(InBucket(f, C, c), 0, Offset(f, Bucket(c)))
    BY DEF IsIndex
  <2>2. Bucket(c) = a => Leads(InBucket(g, D, c), 0, Offset(g, Bucket(c)))
    <3> HAVE Bucket(c) = a
    <3>1. B = {} /\ c = b
      BY <1>1, <1>2, <1>3, <1>4 DEF Bucket, Header, InBucket
    <3> QED
      BY <1>1, <1>6, <1>9, <3>1 DEF Leads
  <2>3. CASE Bucket(c) # a
    <3>1. Offset(g, Bucket(c)) = Offset(f, Bucket(c)) /\ (c = b => B # {})
      <4>1. Bucket(c) + 1 < a \/ Bucket(c) > a + 1
        BY <1>1, <1>2, <1>3, <1>4, <2>3 DEF Bucket, Header, InBucket
      <4>2. Bucket(c) \in Nat
        BY DEF Bucket, Header
      <4> QED
        BY <1>3, <1>6, <2>3, <4>1, <4>2
    <3>2. c = b => \A q \in B : q \in Nat /\ q > 0 /\ q <= r
      BY <1>1, <1>2, <1>8 DEF InBucket
    <3>3. c = b => Offset(f, Bucket(c)) \in B
      BY <2>1, <3>1, <3>2 DEF Leads
    <3>4. CASE c = b
      <4> DEFINE w == Offset(g, Bucket(c))
      <4>1. w \in B /\ w \in Nat /\ w > 0 /\ w <= r /\ \A q \in B : q > 0 => w <= q
        BY <2>1, <3>1, <3>2, <3>3, <3>4 DEF Leads
      <4>2. InBucket(g, D, c) = B \cup {r}
        BY <1>9, <3>4
      <4> HIDE DEF w, B, D
      <4>3. Leads(B \cup {r}, 0, w)
        BY <4>1 DEF Leads
      <4> QED
        BY <4>2, <4>3 DEF w
    <3>5. CASE c # b
      BY <1>9, <2>1, <3>1, <3>5
    <3> QED
      BY <3>4, <3>5
  <2> QED
    BY <2>2, <2>3
<1>11. ASSUME NEW p \in C
       PROVE  Leads(InBucket(g, D, Hash[KeyIn(g, p)]), p, Offset(g, p + NextPtr))
  <2> DEFINE c == Hash[KeyIn(f, p)]
  <2>1. /\ Leads(InBucket(f, C, c), p, Offset(f, p + NextPtr))
        /\ KeyIn(g, p) = KeyIn(f, p) /\ p \in InBucket(f, C, c) /\ p \in Nat
    BY <1>7 DEF IsIndex, InBucket
  <2>2. CASE p + NextPtr = a
    <3>1. a - 20 = p
      BY <1>3, <2>1, <2>2 DEF NextPtr
    <3>2. p \in B /\ \A q \in B : q <= p
      BY <1>1, <1>2, <1>3, <3>1 DEF Bucket, Header
    <3>3. c = b
      BY <3>2 DEF InBucket
    <3>4. /\ InBucket(g, D, Hash[KeyIn(g, p)]) = B \cup {r}
          /\ Offset(g, p + NextPtr) = r
      BY <1>6, <1>9, <2>1, <2>2, <3>3
    <3>5. r # 0 /\ r > p
      BY <1>1, <1>8
    <3>6. \A q \in B : q \in Nat
      BY DEF InBucket
    <3> HIDE DEF B, D
    <3>7. Leads(B \cup {r}, p, r)
      BY <2>1, <3>2, <3>5, <3>6 DEF Leads
    <3> QED
      BY <3>4, <3>7
  <2>3. CASE p + NextPtr # a
    <3>1. Offset(g, p + NextPtr) = Offset(f, p + NextPtr)
      BY <1>7, <2>3
    <3>2. CASE c # b
      BY <1>9, <2>1, <3>1, <3>2
    <3>3. CASE c = b
      <4>1. p \in B /\ a - 20 \in B /\ p # a - 20 /\ p <= a - 20
        BY <1>3, <2>1, <2>3, <3>3 DEF NextPtr
      <4>2. Offset(f, p + NextPtr) # 0
        BY <1>3, <2>1, <3>3, <4>1 DEF Leads
      <4>3. Offset(f, p + NextPtr) <= r
        <5>1. Offset(f, p + NextPtr) \in C
          BY <2>1, <4>2 DEF Leads, InBucket
        <5>2. Offset(f, p + NextPtr) \in Nat /\ Offset(f, p + NextPtr) < r
          BY <1>8, <5>1
        <5> QED
          BY <5>2
      <4> QED
        BY <1>9, <2>1, <3>1, <3>3, <4>2, <4>3 DEF Leads
    <3> QED
      BY <3>2, <3>3
  <2> QED
    BY <2>2, <2>3
<1>12. Leads(InBucket(g, D, Hash[KeyIn(g, r)]), r, Offset(g, r + NextPtr))
  <2>1. r + NextPtr # a
    BY <1>3, <1>4, <1>8, <1>1 DEF NextPtr
  <2>2. Offset(g, r + NextPtr) = 0 /\ KeyIn(g, r) = KeyIn(f, r)
    BY <1>7, <2>1
  <2> QED
    BY <1>8, <1>9, <2>2 DEF Leads, InBucket
<1>13. ASSUME NEW p \in D
       PROVE  /\ p >= Header + 2 * Buckets /\ p + KeyRecord <= g.size
              /\ KeyIn(g, p) \in Key
              /\ HasDatum(g, d, p)
  <2>1. KeyIn(f, p) \in Key /\ HasDatum(f, d, p)
    BY DEF IsIndex
  <2> QED
    BY <1>2, <1>5, <1>7, <2>1 DEF HasDatum, KeyRecord
<1>14. \A p, q \in D : p < q => p + KeyRecord <= q /\ KeyIn(g, p) # KeyIn(g, q)
  BY <1>1, <1>2, <1>7, <1>8 DEF IsIndex, KeyRecord
<1> HIDE DEF D
<1>15. IsIndex(g, d, D)
  BY <1>1, <1>5, <1>10, <1>11, <1>12, <1>13, <1>14 DEF IsIndex, D
<1> QED
  BY <1>5, <1>7, <1>15 DEF D, Extended

\* A replace writes one word too early: the lower word of the data pointer becomes 0.
LEMMA IndexReplaced ==
  ASSUME NEW f, NEW d, NEW C \in SUBSET Nat, IsIndex(f, d, C),
         Kinds \cap {"REPLACE", "STORE"} # {},
         NEW r \in C, NEW w, NEW g, g = Written(f, r + 17, <<w, 0>>)
  PROVE  IsIndex(g, d, C) /\ (Inside(f) => Inside(g))
<1>1. /\ f.size \in Nat /\ IsFile(f) /\ Buckets \in Nat /\ r \in Nat
      /\ \A p \in C : /\ p \in Nat /\ p >= Header + 2 * Buckets /\ p + 22 <= f.size
                      /\ p < r => p + 22 <= r
                      /\ r < p => r + 22 <= p
  BY HashAssumption DEF IsIndex, IsFile, KeyRecord
<1>2. /\ IsFile(g) /\ g.size = f.size /\ (Inside(f) => Inside(g))
      /\ Word(g, r + 18) = 0
      /\ \A q \in Nat : q # r + 17 /\ q # r + 18 => Word(g, q) = Word(f, q)
  <2>1. r + 17 \in Nat /\ r + 17 + 2 <= f.size /\ r + 17 + 1 = r + 18
    BY <1>1
  <2>2. Pointed(f, r + 17, w, Written(f, r + 17, <<w, 0>>))
    BY <1>1, <2>1, PointerWritten
  <2>3. Pointed(f, r + 17, w, g)
    BY <2>2, Zenon
  <2> QED
    BY <1>1, <2>1, <2>3 DEF Pointed
<1>3. \A p \in C : /\ KeyIn(g, p) = KeyIn(f, p)
                   /\ Word(g, p + DataPtr + 1) = Word(f, p + DataPtr + 1)
                   /\ p # r => PtrIn(g, p) = PtrIn(f, p)
                   /\ Offset(g, p + NextPtr) = Offset(f, p + NextPtr)
  BY <1>1, <1>2 DEF KeyIn, Offset, DataPtr, NextPtr, PtrIn
<1>4. \A b : InBucket(g, C, b) = InBucket(f, C, b)
  BY <1>3 DEF InBucket
<1>5. \A b \in 0 .. Buckets - 1 : Offset(g, Bucket(b)) = Offset(f, Bucket(b))
  BY <1>1, <1>2 DEF Bucket, Header, Offset
<1>6. \A p \in C : HasDatum(g, d, p)
  <2> SUFFICES ASSUME NEW p \in C PROVE HasDatum(g, d, p)
    OBVIOUS
  <2>1. HasDatum(f, d, p)
    BY DEF IsIndex
  <2>2. CASE p = r
    BY <1>2, <1>3, <2>1, <2>2 DEF HasDatum, DataPtr, PtrIn
  <2>3. CASE p # r
    BY <1>3, <2>1, <2>3 DEF HasDatum
  <2> QED
    BY <2>2, <2>3
<1> QED
  BY <1>1, <1>2, <1>3, <1>4, <1>5, <1>6 DEF IsIndex

-----------------------------------------------------------------------------
(***************************************************************************)
(* Steps that leave the files alone.                                       *)
(***************************************************************************)
Knowing == {"record", "data", "key", "pointer", "read", "missing"}

LEMMA KnowsNothing ==
  ASSUME NEW C, NEW g, pc'[g] \notin Knowing
  PROVE  Knows(g, C)'
  BY DEF Knows, Knowing

\* The step of one handle, which knows what it should afterwards.
LEMMA StepKeeps ==
  ASSUME FilesInv, UNCHANGED files, NEW h \in Handle, NEW C \in SUBSET Nat, Linking(C),
         \A g \in Handle \ {h} : pc'[g] = pc[g] /\ call'[g] = call[g] /\ db'[g] = db[g],
         DbType', InCall(h)', Knows(h, C)'
  PROVE  IndexInv'
<1>1. ASSUME NEW g \in Handle PROVE InCall(g)' /\ Knows(g, C)'
  <2>1. CASE g = h
    BY <2>1
  <2>2. CASE g # h
    <3>1. pc'[g] = pc[g] /\ call'[g] = call[g] /\ db'[g] = db[g] /\ idx' = idx /\ dat' = dat
      BY <2>2 DEF files
    <3>2. InCall(g) /\ Knows(g, C)
      BY DEF FilesInv, Linking
    <3>3. Missing(g, C)' = Missing(g, C) /\ Mine(g, C)' = Mine(g, C)
      BY <3>1 DEF Missing, Mine
    <3>4. /\ Reached(g, C)' = Reached(g, C) /\ Outcome(g, C)' = Outcome(g, C)
          /\ DataWritten(g)' = DataWritten(g) /\ KeyWritten(g, C)' = KeyWritten(g, C)
      BY <3>1, <3>3 DEF Reached, Outcome, DataWritten, KeyWritten
    <3> QED
      BY <3>1, <3>2, <3>3, <3>4 DEF InCall, Knows
  <2> QED
    BY <2>1, <2>2
<1>2. IsIndex(idx, dat, C)'
  BY DEF Linking, files
<1>3. IsData(dat)' /\ Inside(idx)' /\ Inside(dat)'
  BY DEF FilesInv, files
<1> QED
  BY <1>1, <1>2, <1>3 DEF IndexInv, FilesInv, Linking

LEMMA QuietStepKeeps ==
  ASSUME IndexInv, UNCHANGED files, NEW h \in Handle,
         \A g \in Handle \ {h} : pc'[g] = pc[g] /\ call'[g] = call[g] /\ db'[g] = db[g],
         DbType', InCall(h)', pc'[h] \notin Knowing
  PROVE  IndexInv'
<1>1. PICK C \in SUBSET Nat : Linking(C)
  BY DEF IndexInv
<1>2. Knows(h, C)'
  BY KnowsNothing
<1> QED
  BY <1>1, <1>2, StepKeeps DEF IndexInv

LEMMA EndedKeepsIndex ==
  ASSUME LockInv, IndexInv, NEW h \in Handle, Ended(h), UNCHANGED files
  PROVE  IndexInv'
<1>1. /\ pc' = [pc EXCEPT ![h] = "ended"]
      /\ call' = [call EXCEPT ![h] = NoCall]
      /\ db' = [db EXCEPT ![h] = NoDb]
  BY DEF Ended, GoTo
<1>2. DbType'
  BY <1>1 DEF IndexInv, FilesInv, DbType
<1>3. pc'[h] = "ended" /\ call'[h] = NoCall
  BY <1>1 DEF LockInv, LockType
<1>4. InCall(h)'
  BY <1>3 DEF InCall
<1>5. pc'[h] \notin Knowing
  BY <1>3 DEF Knowing
<1> QED
  BY <1>1, <1>2, <1>4, <1>5, QuietStepKeeps

\* Beginning a call and returning from it, and the locks.
LEMMA OutsideKeepsIndex ==
  ASSUME LockInv, IndexInv, NEW h \in Handle,
         \/ \E c \in Calls : Begin(h, c)
         \/ LockIdx(h) \/ LockDat(h) \/ UnlockIdx(h) \/ UnlockDat(h) \/ Close(h) \/ Open(h)
  PROVE  IndexInv'
<1>1. /\ UNCHANGED files
      /\ \A g \in Handle \ {h} : pc'[g] = pc[g] /\ call'[g] = call[g] /\ db'[g] = db[g]
  <2>1. CASE LockIdx(h) \/ LockDat(h)
    BY <2>1 DEF LockIdx, LockDat, Flock, GoTo, LockInv, LockType, files
  <2>2. CASE \E c \in Calls : Begin(h, c)
    BY <2>2 DEF Begin, GoTo, LockInv, LockType, files
  <2>3. CASE UnlockIdx(h) \/ UnlockDat(h) \/ Close(h) \/ Open(h)
    BY <2>3 DEF UnlockIdx, UnlockDat, Close, Open, GoTo, LockInv, LockType, IndexInv,
       FilesInv, DbType, files
  <2> QED
    BY <2>1, <2>2, <2>3
<1>2. DbType'
  BY DEF Begin, LockIdx, LockDat, Flock, UnlockIdx, UnlockDat, Close, Open, IndexInv,
     FilesInv, DbType
<1>3. InCall(h)' /\ pc'[h] \notin Knowing
  <2>1. InCall(h) /\ h \in DOMAIN pc /\ h \in DOMAIN call
    BY DEF IndexInv, FilesInv, LockInv, LockType
  <2>2. CASE \E c \in Calls : Begin(h, c)
    BY <2>1, <2>2 DEF Begin, GoTo, InCall, Knowing
  <2>3. CASE LockIdx(h) \/ LockDat(h)
    BY <2>1, <2>3 DEF LockIdx, LockDat, Flock, At, GoTo, InCall, Knowing
  <2>4. CASE UnlockIdx(h) \/ UnlockDat(h) \/ Close(h) \/ Open(h)
    BY <2>1, <2>4 DEF UnlockIdx, UnlockDat, Close, Open, At, GoTo, InCall, Knowing
  <2> QED
    BY <2>2, <2>3, <2>4
<1> QED
  BY <1>1, <1>2, <1>3, QuietStepKeeps

\* What a search comes to: d is what _db_find_and_lock leaves in the handle.
LEMMA FoundKeepsIndex ==
  ASSUME LockInv, "DELETE" \notin Kinds, FilesInv, UNCHANGED files,
         NEW h \in Handle, pc[h] \in {"bucket", "record"},
         NEW C \in SUBSET Nat, Linking(C),
         NEW found, NEW d, Found(h, found, d), DOMAIN d = DOMAIN NoDb,
         found \in {"FIRST", "NOTEXIST", "EXIST"},
         found = "FIRST" => Mine(h, C) = {} /\ Missing(h, C),
         found = "NOTEXIST" =>
           /\ Missing(h, C)
           /\ \E p \in Mine(h, C) : d.preidx = p + KeyRecord /\ \A q \in Mine(h, C) : q <= p,
         found = "EXIST" =>
           /\ d.idxoff \in C /\ KeyIn(idx, d.idxoff) = call[h].key
           /\ d.datoff = PtrIn(idx, d.idxoff)
  PROVE  IndexInv'
<1> DEFINE kind == call[h].kind
           to   == IF found = "EXIST" THEN AfterExist(kind) ELSE AfterMiss(kind)
           e    == [d EXCEPT !.found = found]
<1>1. kind \in {"INSERT", "REPLACE", "STORE", "FETCH"}
  BY KindsAssumption DEF LockInv, HasLocks
<1>2. /\ found = "EXIST" => to = IF kind = "INSERT" THEN "unlockIdx"
                                 ELSE IF kind = "FETCH" THEN "read" ELSE "data"
      /\ found # "EXIST" => to = IF kind = "REPLACE" THEN "unlockIdx"
                                 ELSE IF kind = "FETCH" THEN "missing" ELSE "data"
  BY <1>1 DEF AfterExist, AfterMiss
<1> HIDE DEF to
<1>3. /\ db' = [db EXCEPT ![h] = e] /\ call' = call
      /\ pc' = [pc EXCEPT ![h] = to]
  BY <1>1, <1>2 DEF Found, GoTo, to
<1>4. /\ DOMAIN e = DOMAIN NoDb /\ e.found = found /\ e.idxoff = d.idxoff
      /\ e.preidx = d.preidx /\ e.datoff = d.datoff
  BY DEF NoDb
<1> HIDE DEF e
<1>5. DbType' /\ db'[h] = e
  BY <1>3, <1>4 DEF FilesInv, DbType
<1>6. pc'[h] = to /\ call'[h] = call[h] /\ idx' = idx
  BY <1>3 DEF LockInv, LockType, files
<1>7. InCall(h)'
  <2>1. call[h] \in Calls
    BY DEF FilesInv, InCall
  <2> QED
    BY <1>1, <1>2, <1>6, <2>1 DEF InCall
<1>8. Missing(h, C)' = Missing(h, C) /\ Mine(h, C)' = Mine(h, C)
  BY <1>6 DEF Missing, Mine
<1>9. Outcome(h, C)' \/ to # "data"
  BY <1>1, <1>2, <1>4, <1>5, <1>6, <1>8 DEF Outcome
<1>10. Knows(h, C)'
  <2>1. CASE to = "data"
    BY <1>1, <1>2, <1>6, <1>9, <2>1 DEF Knows, Stores
  <2>2. CASE to = "read"
    BY <1>1, <1>2, <1>4, <1>5, <1>6, <2>2 DEF Knows
  <2>3. CASE to = "missing"
    BY <1>1, <1>2, <1>6, <1>8, <2>3 DEF Knows
  <2>4. CASE to = "unlockIdx"
    BY <1>6, <2>4 DEF Knows
  <2> QED
    BY <1>1, <1>2, <2>1, <2>2, <2>3, <2>4
<1>11. \A g \in Handle \ {h} : pc'[g] = pc[g] /\ call'[g] = call[g] /\ db'[g] = db[g]
  BY <1>3 DEF LockInv, LockType, FilesInv, DbType
<1> QED
  BY <1>5, <1>7, <1>10, <1>11, StepKeeps

\* The record that a bucket leads to, and every other along its chain.
LEMMA FindBucketKeepsIndex ==
  ASSUME LockInv, "DELETE" \notin Kinds, IndexInv, NEW h \in Handle, FindBucket(h)
  PROVE  IndexInv'
<1>1. PICK C \in SUBSET Nat : Linking(C)
  BY DEF IndexInv
<1> DEFINE k     == call[h].key
           first == Offset(idx, Bucket(Hash[k]))
           d     == [NoDb EXCEPT !.key_ptr_pos = first, !.idxoff = first]
<1>2. FilesInv /\ pc[h] = "bucket" /\ UNCHANGED files
  BY DEF FindBucket, At, IndexInv
<1>3. call[h] \in Calls /\ k \in Key /\ Hash[k] \in 0 .. Buckets - 1
  <2>1. call[h] \in Calls
    BY <1>2 DEF FilesInv, InCall
  <2>2. k \in Key
    BY <2>1 DEF Calls
  <2> QED
    BY <2>1, <2>2, HashAssumption
<1>4. Leads(Mine(h, C), 0, first)
  BY <1>1, <1>3 DEF Linking, IsIndex, Mine
<1>5. \A q \in Mine(h, C) : q \in Nat /\ q > 0
  <2>1. \A q \in Mine(h, C) : q \in Nat /\ q >= Header + 2 * Buckets
    BY <1>1 DEF Linking, IsIndex, Mine, InBucket
  <2>2. Buckets \in Nat
    BY HashAssumption
  <2> QED
    BY <2>1, <2>2 DEF Header
<1>6. \A q \in C : KeyIn(idx, q) = k => q \in Mine(h, C)
  BY DEF Mine, InBucket
<1>7. CASE first = 0
  <2>1. Mine(h, C) = {}
    BY <1>4, <1>5, <1>7 DEF Leads
  <2>2. Missing(h, C)
    BY <1>6, <2>1 DEF Missing
  <2>3. Found(h, "FIRST", d)
    BY <1>7 DEF FindBucket
  <2>4. DOMAIN d = DOMAIN NoDb
    BY DEF NoDb
  <2> HIDE DEF d
  <2> QED
    BY <1>1, <1>2, <2>1, <2>2, <2>3, <2>4, FoundKeepsIndex
<1>8. CASE first # 0
  <2>1. /\ db' = [db EXCEPT ![h] = d] /\ pc' = [pc EXCEPT ![h] = "record"]
        /\ call' = call
    BY <1>8 DEF FindBucket, GoTo
  <2>2. DOMAIN d = DOMAIN NoDb /\ d.idxoff = first
    BY DEF NoDb
  <2> HIDE DEF d
  <2>3. DbType' /\ db'[h] = d
    BY <1>2, <2>1, <2>2 DEF FilesInv, DbType
  <2>4. pc'[h] = "record" /\ call'[h] = call[h] /\ idx' = idx
    BY <1>2, <2>1 DEF LockInv, LockType, files
  <2>5. InCall(h)'
    BY <1>3, <2>4 DEF InCall
  <2>6. first \in Mine(h, C) /\ \A q \in Mine(h, C) : first <= q
    BY <1>4, <1>5, <1>8 DEF Leads
  <2>7. Mine(h, C)' = Mine(h, C)
    BY <2>4 DEF Mine
  <2> HIDE DEF first
  <2>8. \A q \in Mine(h, C) : ~(q < first)
    BY <1>5, <2>6
  <2>9. Reached(h, C)'
    BY <2>2, <2>3, <2>4, <2>6, <2>7, <2>8 DEF Reached
  <2>10. Knows(h, C)'
    BY <2>4, <2>9 DEF Knows
  <2> QED
    BY <1>1, <1>2, <2>1, <2>3, <2>5, <2>10, StepKeeps
<1> QED
  BY <1>7, <1>8

LEMMA FindRecordKeepsIndex ==
  ASSUME LockInv, "DELETE" \notin Kinds, IndexInv, NEW h \in Handle, FindRecord(h)
  PROVE  IndexInv'
<1>1. PICK C \in SUBSET Nat : Linking(C)
  BY DEF IndexInv
<1> DEFINE k    == call[h].key
           p    == db[h].idxoff
           next == Offset(idx, p + NextPtr)
           d    == [db[h] EXCEPT !.preidx = p + KeyRecord]
           e    == [d EXCEPT !.datoff = Offset(idx, p + DataPtr)]
<1>2. FilesInv /\ pc[h] = "record" /\ UNCHANGED files
  BY DEF FindRecord, At, IndexInv
<1>3. call[h] \in Calls
  BY <1>2 DEF FilesInv, InCall
<1>4. p \in Mine(h, C) /\ \A q \in Mine(h, C) : q < p => KeyIn(idx, q) # k
  BY <1>1, <1>2 DEF Linking, Knows, Reached
<1>5. /\ p \in C /\ p \in Nat /\ p + KeyRecord <= idx.size
      /\ Word(idx, p + DataPtr + 1) = 0
      /\ Leads(Mine(h, C), p, next)
      /\ \A q \in Mine(h, C) : q \in C /\ q \in Nat
      /\ \A q \in C : KeyIn(idx, q) = k => q \in Mine(h, C)
  BY <1>1, <1>4 DEF Linking, IsIndex, HasDatum, Mine, InBucket
<1>6. /\ DOMAIN d = DOMAIN NoDb /\ d.preidx = p + KeyRecord /\ d.idxoff = p
      /\ DOMAIN e = DOMAIN NoDb /\ e.idxoff = p /\ e.datoff = PtrIn(idx, p)
  <2>1. DOMAIN db[h] = DOMAIN NoDb
    BY <1>2 DEF FilesInv, DbType
  <2>2. Offset(idx, p + DataPtr) = PtrIn(idx, p)
    BY <1>5 DEF Offset, PtrIn
  <2> QED
    BY <2>1, <2>2 DEF NoDb
<1>7. /\ KeyIn(idx, p) = k => Found(h, "EXIST", e)
      /\ KeyIn(idx, p) # k /\ next = 0 => Found(h, "NOTEXIST", d)
      /\ KeyIn(idx, p) # k /\ next # 0 =>
           db' = [db EXCEPT ![h] = [d EXCEPT !.idxoff = next]] /\ UNCHANGED <<pc, call>>
  BY <1>5 DEF FindRecord, Readable, KeyIn
<1>8. CASE KeyIn(idx, p) = k
  BY <1>1, <1>2, <1>5, <1>6, <1>7, <1>8, FoundKeepsIndex
<1>9. CASE KeyIn(idx, p) # k /\ next = 0
  <2>1. \A q \in Mine(h, C) : q <= p
    BY <1>5, <1>9 DEF Leads
  <2>2. Missing(h, C)
    <3>1. ASSUME NEW q \in C, KeyIn(idx, q) = k PROVE FALSE
      <4>1. q \in Mine(h, C) /\ q \in Nat /\ q <= p
        BY <1>5, <2>1, <3>1
      <4>2. q = p \/ q < p
        BY <1>5, <4>1
      <4> QED
        BY <1>4, <1>9, <3>1, <4>1, <4>2
    <3> QED
      BY <3>1 DEF Missing
  <2> HIDE DEF d
  <2> QED
    BY <1>1, <1>2, <1>4, <1>6, <1>7, <1>9, <2>1, <2>2, FoundKeepsIndex
<1>10. CASE KeyIn(idx, p) # k /\ next # 0
  <2> DEFINE x == [d EXCEPT !.idxoff = next]
  <2>1. DOMAIN x = DOMAIN NoDb /\ x.idxoff = next
    BY <1>6 DEF NoDb
  <2> HIDE DEF x
  <2>2. DbType' /\ db'[h] = x
    BY <1>2, <1>7, <1>10, <2>1 DEF FilesInv, DbType, x
  <2>3. pc' = pc /\ call' = call /\ idx' = idx
    BY <1>2, <1>7, <1>10 DEF files
  <2>4. InCall(h)'
    BY <1>2, <1>3, <2>3 DEF InCall
  <2>5. next \in Mine(h, C) /\ next > p /\ \A q \in Mine(h, C) : q > p => next <= q
    BY <1>5, <1>10 DEF Leads
  <2>6. Mine(h, C)' = Mine(h, C)
    BY <2>3 DEF Mine
  <2> HIDE DEF next, p
  <2>7. ASSUME NEW q \in Mine(h, C), q < next PROVE KeyIn(idx, q) # k
    <3>1. q \in Nat /\ next \in Nat /\ p \in Nat
      BY <1>5, <2>5
    <3>2. q < p \/ q = p
      BY <2>5, <2>7, <3>1
    <3> QED
      BY <1>4, <1>10, <3>2
  <2>8. Reached(h, C)'
    BY <2>1, <2>2, <2>3, <2>5, <2>6, <2>7 DEF Reached
  <2>9. Knows(h, C)'
    BY <1>2, <2>3, <2>8 DEF Knows
  <2>10. \A g \in Handle \ {h} : db'[g] = db[g]
    BY <1>2, <1>7, <1>10 DEF FilesInv, DbType
  <2> QED
    BY <1>1, <1>2, <2>2, <2>3, <2>4, <2>9, <2>10, StepKeeps
<1> QED
  BY <1>8, <1>9, <1>10

\* A fetch reads the value of its record, or of none after a replace.
LEMMA ReadDataKeepsIndex ==
  ASSUME LockInv, IndexInv, NEW h \in Handle, ReadData(h)
  PROVE  IndexInv'
<1>1. CASE Ended(h)
  BY <1>1, EndedKeepsIndex DEF ReadData
<1>2. CASE ~Ended(h)
  <2>1. /\ call' = [call EXCEPT ![h].value = Value(db[h].datoff)]
        /\ pc' = [pc EXCEPT ![h] = "unlockIdx"] /\ pc[h] = "read"
        /\ db' = db /\ UNCHANGED files
    BY <1>2 DEF ReadData, At, GoTo
  <2>2. call[h] \in Calls /\ call[h].kind = "FETCH" /\ "FETCH" \in Kinds
    BY <2>1 DEF IndexInv, FilesInv, InCall, LockInv, HasLocks
  <2>3. Value(db[h].datoff) \in Data \cup {Absent}
    <3>1. PICK C \in SUBSET Nat : Linking(C)
      BY DEF IndexInv
    <3>2. PICK p \in C : db[h].datoff = PtrIn(idx, p)
      BY <2>1, <3>1 DEF Linking, Knows
    <3>3. Whole(dat, db[h].datoff) \/ db[h].datoff = 0
      BY <3>1, <3>2 DEF Linking, IsIndex, HasDatum
    <3>4. CASE Whole(dat, db[h].datoff)
      BY <3>4 DEF Whole, DatumIn, Value
    <3>5. CASE db[h].datoff = 0
      BY <3>5 DEF Value, IndexInv, FilesInv, IsData, Header
    <3> QED
      BY <3>3, <3>4, <3>5
  <2>4. /\ pc'[h] = "unlockIdx" /\ call'[h] = [call[h] EXCEPT !.value = Value(db[h].datoff)]
        /\ \A g \in Handle \ {h} : pc'[g] = pc[g] /\ call'[g] = call[g]
    BY <2>1 DEF LockInv, LockType
  <2>5. InCall(h)'
    <3>1. PICK k \in Key : call[h] = [kind |-> "FETCH", key |-> k, value |-> Absent]
      BY <2>2 DEF Calls, Stores
    <3>2. call'[h] = [kind |-> "FETCH", key |-> k, value |-> Value(db[h].datoff)]
      BY <2>4, <3>1
    <3> QED
      BY <2>2, <2>3, <2>4, <3>2 DEF InCall
  <2>6. DbType' /\ pc'[h] \notin Knowing
    BY <2>1, <2>4 DEF IndexInv, FilesInv, DbType, Knowing
  <2> QED
    BY <2>1, <2>4, <2>5, <2>6, QuietStepKeeps
<1> QED
  BY <1>1, <1>2

-----------------------------------------------------------------------------
(***************************************************************************)
(* Steps that write.                                                       *)
(***************************************************************************)
\* While a call writes, the others know nothing of the files.
LEMMA WriteKeeps ==
  ASSUME LockInv, FilesInv, NEW h \in Handle, pc[h] \in {"data", "key", "pointer"},
         \A g \in Handle \ {h} : pc'[g] = pc[g] /\ call'[g] = call[g],
         IsData(dat)', Inside(idx)', Inside(dat)', DbType', InCall(h)',
         NEW C \in SUBSET Nat, IsIndex(idx, dat, C)', Knows(h, C)'
  PROVE  IndexInv'
<1>1. ASSUME NEW g \in Handle PROVE InCall(g)' /\ Knows(g, C)'
  <2>1. CASE g = h
    BY <2>1
  <2>2. CASE g # h
    <3>1. pc[g] \notin Holders
      BY <2>2 DEF LockInv, LockType, Compatible, HasLocks, Holders, Writers, Wanted, Files
    <3>2. pc'[g] \notin Knowing /\ pc'[g] = pc[g] /\ call'[g] = call[g]
      BY <2>2, <3>1 DEF Holders, Searchers, Writers, Knowing
    <3>3. InCall(g)
      BY DEF FilesInv
    <3> QED
      BY <3>2, <3>3, KnowsNothing DEF InCall
  <2> QED
    BY <2>1, <2>2
<1> QED
  BY <1>1 DEF IndexInv, FilesInv, Linking

\* An append to the data file keeps every whole record and its value.
LEMMA DataKept ==
  ASSUME IsData(dat), Inside(dat), NEW text, Len(text) \in Nat,
         dat' = Written(Linked, dat.size, text)
  PROVE  /\ IsData(dat)' /\ Inside(dat)' /\ dat'.size >= dat.size + Len(text)
         /\ \A p : Whole(dat, p) => Whole(dat', p) /\ DatumIn(dat', p) = DatumIn(dat, p)
         /\ \A q \in Nat : dat.size <= q /\ q < dat.size + Len(text) =>
              Word(dat', q) = text[q - dat.size + 1]
<1>1. dat.size \in Nat /\ IsFile(dat) /\ dat.size >= 64
  BY DEF IsData, IsFile, Header
<1>2. /\ IsFile(Linked) /\ Inside(Linked) /\ Linked.size = dat.size
      /\ \A q \in Nat : q < 64 \/ q < dat.size - 2 => Word(Linked, q) = Word(dat, q)
  <2>1. CASE dat.size < Header + 6
    BY <1>1, <2>1 DEF Linked
  <2>2. CASE ~(dat.size < Header + 6)
    <3>1. Linked = Written(dat, NextOfLast(dat), <<dat.size, 0>>)
      BY <2>2 DEF Linked
    <3>2. /\ NextOfLast(dat) \in Nat /\ NextOfLast(dat) + 2 <= dat.size
          /\ NextOfLast(dat) = dat.size - 2 /\ NextOfLast(dat) > 64
      BY <1>1, <2>2 DEF NextOfLast, Header
    <3>3. /\ IsFile(Linked) /\ Linked.size = dat.size /\ Inside(Linked)
          /\ \A q \in Nat : q # NextOfLast(dat) /\ q # NextOfLast(dat) + 1 =>
               Word(Linked, q) = Word(dat, q)
      <4>1. Pointed(dat, NextOfLast(dat), dat.size, Linked)
        <5>1. Pointed(dat, NextOfLast(dat), dat.size,
                      Written(dat, NextOfLast(dat), <<dat.size, 0>>))
          BY <1>1, <3>2, PointerWritten
        <5> QED
          BY <3>1, <5>1, Zenon
      <4> QED
        BY <4>1 DEF Pointed
    <3> QED
      BY <1>1, <3>2, <3>3
  <2> QED
    BY <2>1, <2>2
<1>3. /\ IsFile(dat') /\ Inside(dat')
      /\ dat'.size = IF dat.size + Len(text) > dat.size THEN dat.size + Len(text) ELSE dat.size
      /\ \A q \in Nat : Word(dat', q) =
           IF dat.size <= q /\ q < dat.size + Len(text) THEN text[q - dat.size + 1]
           ELSE Word(Linked, q)
  <2>1. IsFile(dat') /\ Inside(dat')
    BY <1>1, <1>2, WordWritten
  <2>2. dat'.size = IF dat.size + Len(text) > dat.size THEN dat.size + Len(text) ELSE dat.size
    BY <1>1, <1>2, WordWritten
  <2>3. dat.size \in Nat /\ IsFile(Linked)
    BY <1>1, <1>2
  <2>4. \A q \in Nat : Word(dat', q) =
           IF dat.size <= q /\ q < dat.size + Len(text) THEN text[q - dat.size + 1]
           ELSE Word(Linked, q)
    BY <2>3, WordWritten
  <2> QED
    BY <2>1, <2>2, <2>4
<1>4. dat'.size \in Nat /\ dat'.size >= dat.size /\ dat'.size >= dat.size + Len(text)
  BY <1>1, <1>3
<1>5. \A q \in Nat : q < 64 \/ q < dat.size - 2 => Word(dat', q) = Word(dat, q)
  BY <1>1, <1>2, <1>3
<1>6. IsData(dat)'
  <2>1. ASSUME NEW p \in 0 .. Header - 1 PROVE Word(dat', p) = 0
    <3>1. p \in Nat /\ p < 64
      BY DEF Header
    <3>2. Word(dat, p) = 0
      BY DEF IsData
    <3> QED
      BY <1>5, <3>1, <3>2
  <2>2. dat'.size >= Header
    BY <1>1, <1>4 DEF Header
  <2> QED
    BY <1>3, <2>1, <2>2 DEF IsData
<1>7. ASSUME NEW p, Whole(dat, p)
      PROVE  Whole(dat', p) /\ DatumIn(dat', p) = DatumIn(dat, p)
  <2>1. p \in Nat /\ p + 5 <= dat.size
    BY <1>7 DEF Whole, DataRecord
  <2>2. Word(dat', p + 1) = Word(dat, p + 1) /\ Word(dat', p + 2) = Word(dat, p + 2)
    BY <1>1, <1>5, <2>1
  <2>3. p + 5 <= dat'.size
    BY <1>1, <1>4, <2>1
  <2> QED
    BY <1>7, <2>2, <2>3 DEF Whole, DatumIn, DataRecord
<1> QED
  BY <1>3, <1>4, <1>6, <1>7

\* The texts that are appended.
LEMMA DataTextShape ==
  ASSUME NEW h
  PROVE  Len(DataText(h)) = 5 /\ DataText(h)[2] = 1 /\ DataText(h)[3] = call[h].value
  BY DEF DataText

LEMMA KeyTextShape ==
  ASSUME NEW h
  PROVE  /\ Len(KeyText(h)) = 22
         /\ KeyText(h)[2] = call[h].key /\ KeyText(h)[19] = db[h].record_pos
         /\ KeyText(h)[20] = 0 /\ KeyText(h)[21] = 0 /\ KeyText(h)[22] = 0
<1> DEFINE head == <<0, call[h].key>>
           tail == <<db[h].record_pos, 0, 0, 0>>
<1>1. Len(head) = 2 /\ Len(Zeros(16)) = 16 /\ Len(tail) = 4
  BY DEF Zeros
<1> QED
  BY <1>1 DEF KeyText, Zeros

LEMMA WriteDataKeepsIndex ==
  ASSUME LockInv, IndexInv, NEW h \in Handle, WriteData(h)
  PROVE  IndexInv'
<1>1. PICK C \in SUBSET Nat : Linking(C)
  BY DEF IndexInv
<1>2. /\ pc[h] = "data" /\ FilesInv /\ idx' = idx /\ call' = call
      /\ dat' = Written(Linked, dat.size, DataText(h))
      /\ db' = [db EXCEPT ![h].record_pos = dat.size]
      /\ pc' = [pc EXCEPT ![h] = IF db[h].found = "EXIST" THEN "pointer" ELSE "key"]
  BY DEF WriteData, At, GoTo, IndexInv
<1>3. /\ IsData(dat)' /\ Inside(dat)' /\ dat'.size >= dat.size + 5
      /\ \A p : Whole(dat, p) => Whole(dat', p) /\ DatumIn(dat', p) = DatumIn(dat, p)
      /\ \A q \in Nat : dat.size <= q /\ q < dat.size + 5 =>
           Word(dat', q) = DataText(h)[q - dat.size + 1]
  <2>1. Len(DataText(h)) = 5 /\ Len(DataText(h)) \in Nat
    BY DataTextShape
  <2>2. /\ IsData(dat)' /\ Inside(dat)' /\ dat'.size >= dat.size + Len(DataText(h))
        /\ \A p : Whole(dat, p) => Whole(dat', p) /\ DatumIn(dat', p) = DatumIn(dat, p)
        /\ \A q \in Nat : dat.size <= q /\ q < dat.size + Len(DataText(h)) =>
             Word(dat', q) = DataText(h)[q - dat.size + 1]
    BY <1>2, <2>1, DataKept DEF FilesInv
  <2> QED
    BY <2>1, <2>2
<1>4. IsIndex(idx, dat, C)'
  <2>1. IsIndex(idx, dat, C) /\ IsFile(idx) /\ idx.size >= idx.size
    <3>1. IsIndex(idx, dat, C)
      BY <1>1 DEF Linking
    <3>2. IsFile(idx)
      BY <3>1 DEF IsIndex
    <3>3. idx.size >= idx.size
      BY <3>2 DEF IsFile
    <3> QED
      BY <3>1, <3>2, <3>3
  <2>2. \A p : Whole(dat, p) => Whole(dat', p)
    BY <1>3
  <2>3. IsIndex(idx, dat', C)
    BY <2>1, <2>2, IndexKept
  <2> QED
    BY <1>2, <2>3
<1>5. dat.size \in Nat /\ dat.size >= Header
  BY <1>2 DEF FilesInv, IsData, IsFile
<1>6. Word(dat', dat.size + 1) = 1 /\ Word(dat', dat.size + 2) = call[h].value
  <2>1. /\ Word(dat', dat.size + 1) = DataText(h)[dat.size + 1 - dat.size + 1]
        /\ Word(dat', dat.size + 2) = DataText(h)[dat.size + 2 - dat.size + 1]
    BY <1>3, <1>5
  <2>2. dat.size + 1 - dat.size + 1 = 2 /\ dat.size + 2 - dat.size + 1 = 3
    BY <1>5
  <2> QED
    BY <2>1, <2>2, DataTextShape
<1>7. call[h] \in Calls /\ call[h].kind \in Stores /\ Outcome(h, C)
  BY <1>1, <1>2 DEF FilesInv, InCall, Linking, Knows
<1>8. call[h].value \in Data
  BY <1>7 DEF Calls, Stores
<1>9. Whole(dat', dat.size) /\ DatumIn(dat', dat.size) = call[h].value
  BY <1>3, <1>5, <1>6, <1>8 DEF Whole, DatumIn, DataRecord
<1>10. /\ DbType' /\ db'[h].record_pos = dat.size /\ db'[h].found = db[h].found
       /\ db'[h].preidx = db[h].preidx /\ db'[h].idxoff = db[h].idxoff
  BY <1>2 DEF FilesInv, DbType, NoDb
<1>11. /\ pc'[h] = IF db[h].found = "EXIST" THEN "pointer" ELSE "key"
       /\ \A g \in Handle \ {h} : pc'[g] = pc[g]
  BY <1>2 DEF LockInv, LockType
<1>12. InCall(h)'
  BY <1>2, <1>7, <1>11 DEF InCall
<1>13. DataWritten(h)'
  BY <1>2, <1>9, <1>10 DEF DataWritten
<1>14. Outcome(h, C)'
  BY <1>2, <1>7, <1>10 DEF Outcome, Mine, Missing
<1>15. Knows(h, C)'
  BY <1>2, <1>7, <1>10, <1>11, <1>13, <1>14 DEF Knows
<1> QED
  BY <1>2, <1>3, <1>4, <1>10, <1>11, <1>12, <1>15, WriteKeeps DEF FilesInv

\* An append to the index file, whole or torn, disturbs no record that is linked.
LEMMA IndexAppended ==
  ASSUME NEW C \in SUBSET Nat, IsIndex(idx, dat, C), NEW text, Len(text) \in Nat,
         Inside(idx), idx' = Written(idx, idx.size, text), UNCHANGED dat
  PROVE  /\ IsIndex(idx, dat, C)' /\ Inside(idx')
         /\ idx'.size = idx.size + Len(text)
         /\ \A p \in C : /\ KeyIn(idx', p) = KeyIn(idx, p)
                         /\ PtrIn(idx', p) = PtrIn(idx, p)
         /\ \A b : InBucket(idx', C, b) = InBucket(idx, C, b)
         /\ \A q \in Nat : idx.size <= q /\ q < idx.size + Len(text) =>
              Word(idx', q) = text[q - idx.size + 1]
<1>1. IsFile(idx) /\ idx.size \in Nat
  BY DEF IsIndex, IsFile
<1>2. IsFile(idx') /\ Inside(idx')
  BY <1>1, WordWritten
<1>3. idx'.size = IF idx.size + Len(text) > idx.size THEN idx.size + Len(text) ELSE idx.size
  BY <1>1, WordWritten
<1>4. \A q \in Nat : Word(idx', q) =
        IF idx.size <= q /\ q < idx.size + Len(text) THEN text[q - idx.size + 1]
        ELSE Word(idx, q)
  BY <1>1, WordWritten
<1>5. /\ idx'.size >= idx.size /\ idx'.size = idx.size + Len(text)
      /\ \A q \in Nat : q < idx.size => Word(idx', q) = Word(idx, q)
  BY <1>1, <1>3, <1>4
<1>6. /\ IsIndex(idx', dat, C)
      /\ \A p \in C : /\ KeyIn(idx', p) = KeyIn(idx, p)
                      /\ PtrIn(idx', p) = PtrIn(idx, p)
      /\ \A b : InBucket(idx', C, b) = InBucket(idx, C, b)
  <2>1. \A p : Whole(dat, p) => Whole(dat, p)
    OBVIOUS
  <2>2. /\ IsFile(idx') /\ idx'.size >= idx.size
        /\ \A q \in Nat : q < idx.size => Word(idx', q) = Word(idx, q)
    BY <1>2, <1>5
  <2>3. IsIndex(idx', dat, C)
    BY <2>1, <2>2, IndexKept
  <2>4. ASSUME NEW p \in C
        PROVE  KeyIn(idx', p) = KeyIn(idx, p) /\ PtrIn(idx', p) = PtrIn(idx, p)
    <3>1. p \in Nat /\ p + KeyRecord <= idx.size
      BY DEF IsIndex
    <3>2. p + 1 \in Nat /\ p + 18 \in Nat /\ p + 1 < idx.size /\ p + 18 < idx.size
      BY <1>1, <3>1 DEF KeyRecord
    <3> QED
      BY <2>2, <3>2 DEF KeyIn, PtrIn, DataPtr
  <2>5. \A b : InBucket(idx', C, b) = InBucket(idx, C, b)
    BY <2>4 DEF InBucket
  <2> QED
    BY <2>3, <2>4, <2>5
<1> QED
  BY <1>2, <1>4, <1>5, <1>6

LEMMA WriteKeyKeepsIndex ==
  ASSUME LockInv, IndexInv, NEW h \in Handle, WriteKey(h)
  PROVE  IndexInv'
<1>1. PICK C \in SUBSET Nat : Linking(C)
  BY DEF IndexInv
<1>2. /\ pc[h] = "key" /\ FilesInv /\ dat' = dat /\ call' = call
      /\ idx' = Written(idx, idx.size, KeyText(h))
      /\ db' = [db EXCEPT ![h].new_key = idx.size]
      /\ pc' = [pc EXCEPT ![h] = "pointer"]
  BY DEF WriteKey, At, GoTo, IndexInv
<1>3. /\ IsIndex(idx, dat, C)' /\ Inside(idx') /\ idx'.size = idx.size + 22
      /\ \A p \in C : KeyIn(idx', p) = KeyIn(idx, p)
      /\ \A b : InBucket(idx', C, b) = InBucket(idx, C, b)
      /\ \A q \in Nat : idx.size <= q /\ q < idx.size + 22 =>
           Word(idx', q) = KeyText(h)[q - idx.size + 1]
  <2>1. Len(KeyText(h)) = 22 /\ Len(KeyText(h)) \in Nat
    BY KeyTextShape
  <2>2. IsIndex(idx, dat, C) /\ Inside(idx)
    BY <1>1, <1>2 DEF Linking, FilesInv
  <2>3. /\ IsIndex(idx, dat, C)' /\ Inside(idx') /\ idx'.size = idx.size + Len(KeyText(h))
        /\ \A p \in C : /\ KeyIn(idx', p) = KeyIn(idx, p)
                        /\ PtrIn(idx', p) = PtrIn(idx, p)
        /\ \A b : InBucket(idx', C, b) = InBucket(idx, C, b)
        /\ \A q \in Nat : idx.size <= q /\ q < idx.size + Len(KeyText(h)) =>
             Word(idx', q) = KeyText(h)[q - idx.size + 1]
    BY <1>2, <2>1, <2>2, IndexAppended
  <2> QED
    BY <2>1, <2>3
<1>4. idx.size \in Nat
  BY <1>1 DEF Linking, IsIndex, IsFile
<1>5. /\ KeyIn(idx', idx.size) = call[h].key
      /\ PtrIn(idx', idx.size) = db[h].record_pos
      /\ Word(idx', idx.size + DataPtr + 1) = 0
      /\ Offset(idx', idx.size + NextPtr) = 0
  <2>1. /\ Word(idx', idx.size + 1) = KeyText(h)[idx.size + 1 - idx.size + 1]
        /\ Word(idx', idx.size + 18) = KeyText(h)[idx.size + 18 - idx.size + 1]
        /\ Word(idx', idx.size + 19) = KeyText(h)[idx.size + 19 - idx.size + 1]
        /\ Word(idx', idx.size + 20) = KeyText(h)[idx.size + 20 - idx.size + 1]
        /\ Word(idx', idx.size + 21) = KeyText(h)[idx.size + 21 - idx.size + 1]
    BY <1>3, <1>4
  <2>2. /\ idx.size + 1 - idx.size + 1 = 2   /\ idx.size + 18 - idx.size + 1 = 19
        /\ idx.size + 19 - idx.size + 1 = 20 /\ idx.size + 20 - idx.size + 1 = 21
        /\ idx.size + 21 - idx.size + 1 = 22
        /\ idx.size + 18 + 1 = idx.size + 19 /\ idx.size + 20 + 1 = idx.size + 21
    BY <1>4
  <2> QED
    BY <2>1, <2>2, KeyTextShape DEF KeyIn, Offset, DataPtr, NextPtr, PtrIn
<1>6. call[h] \in Calls /\ call[h].kind \in Stores /\ Outcome(h, C) /\ DataWritten(h)
  BY <1>1, <1>2 DEF FilesInv, InCall, Linking, Knows
<1>7. /\ DbType' /\ db'[h].record_pos = db[h].record_pos /\ db'[h].found = db[h].found
      /\ db'[h].preidx = db[h].preidx /\ db'[h].idxoff = db[h].idxoff
      /\ db'[h].new_key = idx.size
  BY <1>2 DEF FilesInv, DbType, NoDb
<1>8. pc'[h] = "pointer" /\ \A g \in Handle \ {h} : pc'[g] = pc[g]
  BY <1>2 DEF LockInv, LockType
<1>9. InCall(h)'
  BY <1>2, <1>6, <1>8 DEF InCall
<1>10. DataWritten(h)'
  BY <1>2, <1>6, <1>7 DEF DataWritten
<1>11. Outcome(h, C)'
  <2>1. Mine(h, C)' = Mine(h, C) /\ Missing(h, C)' = Missing(h, C)
    BY <1>2, <1>3 DEF Mine, Missing
  <2> QED
    BY <1>2, <1>6, <1>7, <2>1 DEF Outcome
<1>12. KeyWritten(h, C)'
  <2>1. /\ \A q \in C : q + KeyRecord <= idx.size
        /\ idx.size >= Header + 2 * Buckets
    BY <1>1 DEF Linking, IsIndex
  <2>2. idx.size + KeyRecord <= idx'.size
    BY <1>3, <1>4 DEF KeyRecord
  <2> QED
    BY <1>2, <1>4, <1>5, <1>7, <2>1, <2>2 DEF KeyWritten
<1>13. Knows(h, C)'
  BY <1>2, <1>6, <1>8, <1>10, <1>11, <1>12 DEF Knows
<1> QED
  BY <1>2, <1>3, <1>7, <1>8, <1>9, <1>13, WriteKeeps DEF FilesInv

\* The files have grown, and what is linked is as it was.
Grown(C) ==
  /\ IsIndex(idx, dat, C)' /\ IsData(dat)' /\ Inside(idx)' /\ Inside(dat)'
  /\ \A p \in C : /\ KeyIn(idx', p) = KeyIn(idx, p)
                  /\ PtrIn(idx', p) = PtrIn(idx, p)
  /\ \A p : Whole(dat, p) => Whole(dat', p) /\ DatumIn(dat', p) = DatumIn(dat, p)

LEMMA DataGrows ==
  ASSUME FilesInv, NEW C \in SUBSET Nat, IsIndex(idx, dat, C), NEW text, Len(text) \in Nat,
         dat' = Written(Linked, dat.size, text), idx' = idx
  PROVE  Grown(C)
<1>1. IsData(dat) /\ Inside(dat) /\ Inside(idx)
  BY DEF FilesInv
<1>2. IsData(dat)' /\ Inside(dat)'
  BY <1>1, DataKept
<1>3. \A p : Whole(dat, p) => Whole(dat', p) /\ DatumIn(dat', p) = DatumIn(dat, p)
  BY <1>1, DataKept
<1>4. IsFile(idx) /\ idx.size >= idx.size
  BY DEF IsIndex, IsFile
<1>5. IsIndex(idx, dat', C)
  BY <1>3, <1>4, IndexKept
<1> QED
  BY <1>1, <1>2, <1>3, <1>5 DEF Grown

LEMMA IndexGrows ==
  ASSUME FilesInv, NEW C \in SUBSET Nat, IsIndex(idx, dat, C), NEW text, Len(text) \in Nat,
         idx' = Written(idx, idx.size, text), dat' = dat
  PROVE  Grown(C)
<1>1. IsData(dat) /\ Inside(dat) /\ Inside(idx)
  BY DEF FilesInv
<1>2. IsIndex(idx, dat, C)' /\ Inside(idx')
  BY <1>1, IndexAppended
<1>3. \A p \in C : /\ KeyIn(idx', p) = KeyIn(idx, p)
                   /\ PtrIn(idx', p) = PtrIn(idx, p)
  BY <1>1, IndexAppended
<1> QED
  BY <1>1, <1>2, <1>3 DEF Grown

LEMMA AppendGrows ==
  ASSUME FilesInv, NEW C \in SUBSET Nat, Linking(C), NEW h \in Handle,
         WriteData(h) \/ WriteKey(h) \/ Tear(h)
  PROVE  Grown(C)
<1>1. IsIndex(idx, dat, C)
  BY DEF Linking
<1>2. CASE WriteData(h)
  <2>1. Len(DataText(h)) \in Nat
    BY DataTextShape
  <2> QED
    BY <1>1, <1>2, <2>1, DataGrows DEF WriteData
<1>3. CASE WriteKey(h)
  <2>1. Len(KeyText(h)) \in Nat
    BY KeyTextShape
  <2> QED
    BY <1>1, <1>3, <2>1, IndexGrows DEF WriteKey
<1>4. CASE Tear(h)
  <2>1. PICK n \in Torn :
          \/ /\ dat' = Written(Linked, dat.size, SubSeq(DataText(h), 1, n))
             /\ idx' = idx
          \/ /\ idx' = Written(idx, idx.size, SubSeq(KeyText(h), 1, n))
             /\ dat' = dat
    BY <1>4 DEF Tear
  <2>2. n \in Nat /\ n <= 4
    BY BoundsAssumption
  <2>3. Len(SubSeq(DataText(h), 1, n)) \in Nat
    BY <2>2 DEF DataText
  <2>4. Len(SubSeq(KeyText(h), 1, n)) \in Nat
    <3> DEFINE S == {0, call[h].key, db[h].record_pos}
    <3>1. KeyText(h) \in Seq(S)
      BY DEF KeyText, Zeros
    <3> HIDE DEF S
    <3>2. 1 \in 1 .. Len(KeyText(h)) + 1 /\ n \in 1 - 1 .. Len(KeyText(h))
      BY <2>2, KeyTextShape
    <3>3. Len(SubSeq(KeyText(h), 1, n)) = n - 1 + 1
      BY <3>1, <3>2, SubSeqProperties
    <3> QED
      BY <2>2, <3>3
  <2> QED
    BY <1>1, <2>1, <2>3, <2>4, DataGrows, IndexGrows
<1> QED
  BY <1>2, <1>3, <1>4

LEMMA TearKeepsIndex ==
  ASSUME LockInv, IndexInv, NEW h \in Handle, Tear(h)
  PROVE  IndexInv'
<1>1. PICK C \in SUBSET Nat : Linking(C)
  BY DEF IndexInv
<1>2. /\ FilesInv /\ pc[h] \in {"data", "key"}
      /\ pc' = [pc EXCEPT ![h] = "ended"]
      /\ call' = [call EXCEPT ![h] = NoCall]
      /\ db' = [db EXCEPT ![h] = NoDb]
  BY DEF Tear, Ended, At, GoTo, IndexInv
<1>3. DbType'
  BY <1>2 DEF FilesInv, DbType
<1>4. /\ pc'[h] = "ended" /\ call'[h] = NoCall
      /\ \A g \in Handle \ {h} : pc'[g] = pc[g] /\ call'[g] = call[g]
  BY <1>2 DEF LockInv, LockType
<1>5. InCall(h)' /\ Knows(h, C)'
  BY <1>4, KnowsNothing DEF InCall, Knowing
<1>6. IsIndex(idx, dat, C)' /\ IsData(dat)' /\ Inside(idx)' /\ Inside(dat)'
  BY <1>1, <1>2, AppendGrows DEF Grown
<1> QED
  BY <1>2, <1>3, <1>4, <1>5, <1>6, WriteKeeps

\* A new record is linked behind all others, at the end of its chain.
LEMMA PointerLinks ==
  ASSUME FilesInv, NEW h \in Handle, NEW C \in SUBSET Nat, Linking(C), WritePointer(h),
         db[h].found # "EXIST"
  PROVE  \E r \in Nat :
           /\ C \cup {r} \in SUBSET Nat /\ IsIndex(idx, dat, C \cup {r})' /\ Inside(idx)'
           /\ Missing(h, C) /\ KeyIn(idx, r) = call[h].key
           /\ DatumIn(dat, PtrIn(idx, r)) = call[h].value
           /\ \A p \in C \cup {r} : /\ KeyIn(idx', p) = KeyIn(idx, p)
                                   /\ PtrIn(idx', p) = PtrIn(idx, p)
<1> DEFINE a == Pointer(h).at
           w == Pointer(h).to
           r == db[h].new_key
<1>1. /\ pc[h] = "pointer" /\ dat' = dat
      /\ idx' = Written(idx, a, <<w, 0>>)
  BY DEF WritePointer, At
<1>2. IsIndex(idx, dat, C) /\ Inside(idx)
  BY DEF Linking, FilesInv
<1>3. /\ call[h] \in Calls /\ call[h].kind \in Stores /\ Outcome(h, C) /\ DataWritten(h)
      /\ KeyWritten(h, C)
  BY <1>1 DEF FilesInv, InCall, Linking, Knows
<1>4. call[h].key \in Key
  BY <1>3 DEF Calls
<1>5. /\ r \in Nat /\ r >= Header + 2 * Buckets /\ r + KeyRecord <= idx.size
      /\ \A q \in C : q + KeyRecord <= r
      /\ KeyIn(idx, r) = call[h].key
      /\ PtrIn(idx, r) = db[h].record_pos /\ Word(idx, r + DataPtr + 1) = 0
      /\ Offset(idx, r + NextPtr) = 0
  BY <1>3 DEF KeyWritten
<1>6. HasDatum(idx, dat, r)
  BY <1>3, <1>5 DEF HasDatum, DataWritten
<1>7. Missing(h, C) /\ w = r /\ End(idx, C, Hash[call[h].key], a)
  <2>1. CASE db[h].found = "FIRST"
    BY <1>3, <2>1 DEF Outcome, Pointer, End, Mine
  <2>2. CASE db[h].found = "NOTEXIST"
    <3>1. PICK p \in Mine(h, C) : db[h].preidx = p + KeyRecord /\ \A q \in Mine(h, C) : q <= p
      BY <1>3, <2>2 DEF Outcome
    <3>2. p \in Nat
      BY DEF Mine, InBucket
    <3>3. a = db[h].preidx - 2 /\ w = r
      BY <2>2 DEF Pointer
    <3>4. a = p + NextPtr
      BY <3>1, <3>2, <3>3 DEF NextPtr, KeyRecord
    <3> QED
      BY <1>3, <2>2, <3>1, <3>3, <3>4 DEF Outcome, End, Mine
  <2> QED
    BY <1>3, <2>1, <2>2 DEF Outcome
<1>8. \A q \in C : KeyIn(idx, q) # KeyIn(idx, r)
  BY <1>5, <1>7 DEF Missing
<1>9. KeyIn(idx, r) \in Key /\ End(idx, C, Hash[KeyIn(idx, r)], a)
  BY <1>4, <1>5, <1>7
<1> HIDE DEF a, w, r
<1>10. idx' = Written(idx, a, <<r, 0>>)
  BY <1>1, <1>7
<1>11. Extended(idx, dat, C, r, idx')
  BY <1>2, <1>5, <1>6, <1>8, <1>9, <1>10, IndexLinked
<1>12. DatumIn(dat, PtrIn(idx, r)) = call[h].value
  BY <1>3, <1>5 DEF DataWritten, r
<1>13. C \cup {r} \in SUBSET Nat
  BY <1>5
<1> QED
  BY <1>1, <1>2, <1>5, <1>7, <1>11, <1>12, <1>13 DEF Extended

LEMMA WritePointerKeepsIndex ==
  ASSUME LockInv, IndexInv, NEW h \in Handle, WritePointer(h)
  PROVE  IndexInv'
<1>1. PICK C \in SUBSET Nat : Linking(C)
  BY DEF IndexInv
<1> DEFINE a == Pointer(h).at
           w == Pointer(h).to
<1>2. /\ pc[h] = "pointer" /\ FilesInv /\ dat' = dat /\ call' = call /\ db' = db
      /\ idx' = Written(idx, a, <<w, 0>>)
      /\ pc' = [pc EXCEPT ![h] = "unlockIdx"]
  BY DEF WritePointer, At, GoTo, IndexInv
<1>3. /\ pc'[h] = "unlockIdx"
      /\ \A g \in Handle \ {h} : pc'[g] = pc[g] /\ call'[g] = call[g]
  BY <1>2 DEF LockInv, LockType
<1>4. IsIndex(idx, dat, C) /\ IsData(dat) /\ Inside(idx) /\ Inside(dat)
  BY <1>1, <1>2 DEF Linking, FilesInv
<1>5. /\ call[h] \in Calls /\ call[h].kind \in Stores /\ Outcome(h, C) /\ DataWritten(h)
      /\ db[h].found # "EXIST" => KeyWritten(h, C)
  BY <1>1, <1>2 DEF FilesInv, InCall, Linking, Knows
<1>6. call[h].key \in Key /\ call[h].kind \in Kinds /\ call[h].value \in Data
  BY <1>5 DEF Calls, Stores
<1>7. PICK D \in SUBSET Nat : IsIndex(idx, dat, D)' /\ Inside(idx)'
  <2>1. CASE db[h].found = "EXIST"
    <3>1. db[h].idxoff \in C /\ call[h].kind # "INSERT"
      BY <1>5, <2>1 DEF Outcome
    <3>2. Kinds \cap {"REPLACE", "STORE"} # {}
      BY <1>5, <1>6, <3>1 DEF Stores
    <3>3. a = db[h].idxoff + 1 + 16
      BY <2>1 DEF Pointer
    <3> DEFINE r == db[h].idxoff
    <3> HIDE DEF r, w
    <3>4. r \in C /\ r \in Nat
      BY <3>1 DEF r
    <3>5. a = r + 17
      BY <3>3, <3>4 DEF r
    <3>6. idx' = Written(idx, r + 17, <<w, 0>>)
      BY <1>2, <3>5
    <3>7. IsIndex(idx', dat, C) /\ (Inside(idx) => Inside(idx'))
      BY <1>4, <3>2, <3>4, <3>6, IndexReplaced
    <3> QED
      BY <1>2, <1>4, <3>7
  <2>2. CASE db[h].found # "EXIST"
    BY <1>1, <1>2, <2>2, PointerLinks
  <2> QED
    BY <2>1, <2>2
<1>8. DbType' /\ InCall(h)' /\ Knows(h, D)'
  <2>1. DbType'
    BY <1>2 DEF FilesInv, DbType
  <2>2. Knows(h, D)'
    BY <1>3, KnowsNothing DEF Knowing
  <2>3. InCall(h)'
    BY <1>2, <1>3, <1>5 DEF InCall
  <2> QED
    BY <2>1, <2>2, <2>3
<1> QED
  BY <1>2, <1>3, <1>4, <1>7, <1>8, WriteKeeps

LEMMA InitLinks ==
  ASSUME Init
  PROVE  IsIndex(idx, dat, {}) /\ IsData(dat) /\ Inside(dat) /\ Inside(idx)
<1>1. Header + 2 * Buckets \in Nat /\ Header \in Nat /\ Buckets \in Nat
  BY HashAssumption DEF Header
<1>2. \A n, p : Word(NewFile(n), p) = 0 /\ DOMAIN NewFile(n).words = {}
  BY DEF NewFile, Word
<1>3. \A n \in Nat : IsFile(NewFile(n)) /\ Inside(NewFile(n)) /\ NewFile(n).size = n
  BY DEF NewFile, IsFile, Inside
<1>4. idx = NewFile(Header + 2 * Buckets) /\ dat = NewFile(Header)
  BY DEF Init
<1>5. IsData(dat) /\ Inside(dat) /\ Inside(idx) /\ IsFile(idx)
  BY <1>1, <1>2, <1>3, <1>4 DEF IsData
<1>6. ASSUME NEW b \in 0 .. Buckets - 1
      PROVE  Leads(InBucket(idx, {}, b), 0, Offset(idx, Bucket(b)))
  BY <1>2, <1>4 DEF Leads, InBucket, Offset
<1>7. idx.size >= Header + 2 * Buckets
  BY <1>1, <1>3, <1>4
<1> QED
  BY <1>5, <1>6, <1>7 DEF IsIndex

LEMMA InitIndex ==
  ASSUME Init
  PROVE  IndexInv
<1>1. IsIndex(idx, dat, {}) /\ IsData(dat) /\ Inside(dat) /\ Inside(idx)
  BY InitLinks
<1>2. \A h \in Handle : pc[h] = "idle" /\ call[h] = NoCall
  BY DEF Init
<1>3. \A h \in Handle : InCall(h) /\ Knows(h, {})
  BY <1>2 DEF InCall, Knows
<1>4. DbType
  BY DEF Init, DbType
<1>5. {} \in SUBSET Nat /\ Linking({})
  BY <1>1, <1>3 DEF Linking
<1> QED
  BY <1>1, <1>3, <1>4, <1>5 DEF IndexInv, FilesInv

Inv == LockInv /\ OrderInv /\ IndexInv

\* Whatever the handles call but delete, and wherever they are killed, the records
\* of a bucket stay one chain, and every call knows what it needs of it.
THEOREM IndexInvariant ==
  ASSUME "DELETE" \notin Kinds
  PROVE  Spec => []Inv
<1>1. Init => IndexInv
  BY InitIndex
<1>2. LockInv /\ OrderInv /\ IndexInv /\ [Next]_vars => IndexInv'
  <2> SUFFICES ASSUME LockInv, OrderInv, IndexInv, [Next]_vars
               PROVE  IndexInv'
    OBVIOUS
  <2>1. CASE UNCHANGED vars
    <3>1. idx' = idx /\ dat' = dat /\ pc' = pc /\ call' = call /\ db' = db
      BY <2>1 DEF vars, files
    <3>2. FilesInv'
      BY <3>1 DEF IndexInv, FilesInv, DbType, InCall
    <3>3. PICK C \in SUBSET Nat : Linking(C)
      BY DEF IndexInv
    <3>4. ASSUME NEW g \in Handle PROVE Knows(g, C)'
      <4>1. Missing(g, C)' = Missing(g, C) /\ Mine(g, C)' = Mine(g, C)
        BY <3>1 DEF Missing, Mine
      <4>2. /\ Reached(g, C)' = Reached(g, C) /\ Outcome(g, C)' = Outcome(g, C)
            /\ DataWritten(g)' = DataWritten(g) /\ KeyWritten(g, C)' = KeyWritten(g, C)
        BY <3>1, <4>1 DEF Reached, Outcome, DataWritten, KeyWritten
      <4> QED
        BY <3>1, <3>3, <4>1, <4>2 DEF Linking, Knows
    <3>5. IsIndex(idx, dat, C)'
      BY <3>1, <3>3 DEF Linking
    <3> QED
      BY <3>2, <3>4, <3>5 DEF IndexInv, Linking
  <2>2. ASSUME NEW h \in Handle, Kill(h) \/ FetchMissing(h) PROVE IndexInv'
    BY <2>2, EndedKeepsIndex DEF Kill, FetchMissing
  <2>3. ASSUME NEW h \in Handle, MarkDeleted(h) \/ Unchain(h) PROVE FALSE
    BY <2>3 DEF MarkDeleted, Unchain, At, OrderInv, InOrder
  <2>4. ASSUME NEW h \in Handle,
               \/ \E c \in Calls : Begin(h, c)
               \/ LockIdx(h) \/ LockDat(h) \/ UnlockIdx(h) \/ UnlockDat(h)
               \/ Close(h) \/ Open(h)
        PROVE  IndexInv'
    BY <2>4, OutsideKeepsIndex
  <2>5. ASSUME NEW h \in Handle, FindBucket(h) \/ FindRecord(h) \/ ReadData(h)
        PROVE  IndexInv'
    BY <2>5, FindBucketKeepsIndex, FindRecordKeepsIndex, ReadDataKeepsIndex
  <2>6. ASSUME NEW h \in Handle, WriteData(h) \/ WriteKey(h) \/ WritePointer(h) \/ Tear(h)
        PROVE  IndexInv'
    BY <2>6, WriteDataKeepsIndex, WriteKeyKeepsIndex, WritePointerKeepsIndex, TearKeepsIndex
  <2> QED
    BY <2>1, <2>2, <2>3, <2>4, <2>5, <2>6 DEF Next, Step
<1> QED
  BY <1>1, <1>2, LockOrder, PTL DEF Spec, Inv

\* Without deletes the files never lose what they have: sizes, states and calls stay
\* what they should be, and a key record only ever gets a whole data record.
THEOREM TypeCorrect ==
  ASSUME "DELETE" \notin Kinds
  PROVE  Spec => []TypeOK
<1>1. Inv => TypeOK
  <2> SUFFICES ASSUME Inv PROVE TypeOK
    OBVIOUS
  <2>1. PICK C \in SUBSET Nat : Linking(C)
    BY DEF Inv, IndexInv
  <2>2. /\ idx.size >= Header + 2 * Buckets /\ DOMAIN idx.words \subseteq 0 .. idx.size - 1
        /\ dat.size >= Header /\ DOMAIN dat.words \subseteq 0 .. dat.size - 1
    BY <2>1 DEF Inv, IndexInv, FilesInv, IsData, Inside, Linking, IsIndex
  <2>3. /\ lock \in [Files -> [Handle -> {"UN", "SH", "EX"}]]
        /\ pc \in [Handle -> {"idle", "lockIdx", "lockDat", "bucket", "record", "data", "key",
                              "pointer", "mark", "unchain", "read", "missing", "unlockIdx",
                              "unlockDat", "closed", "ended"}]
        /\ \A h \in Handle : call[h].kind \in Kinds \cup {"NONE"}
    BY DEF Inv, LockInv, LockType, Holders, Searchers, Writers
  <2>4. ASSUME NEW h \in Handle
        PROVE  call[h].key \in Key \cup {Absent} /\ call[h].value \in Data \cup {Absent}
    <3>1. InCall(h)
      BY DEF Inv, IndexInv, FilesInv
    <3>2. CASE call[h] = NoCall
      BY <3>2 DEF NoCall
    <3>3. CASE call[h] \in Calls
      BY <3>3 DEF Calls
    <3>4. CASE \E k \in Key, v \in Data \cup {Absent} :
                 call[h] = [kind |-> "FETCH", key |-> k, value |-> v]
      BY <3>4
    <3> QED
      BY <3>1, <3>2, <3>3, <3>4 DEF InCall
  <2>5. ASSUME NEW h \in Handle, pc[h] \in {"key", "pointer"}
        PROVE  Readable(dat, db[h].record_pos, DataRecord)
    BY <2>1, <2>5 DEF Linking, Knows, DataWritten, Whole, Readable
  <2> QED
    BY <2>2, <2>3, <2>4, <2>5 DEF TypeOK
<1> QED
  BY <1>1, IndexInvariant, PTL

-----------------------------------------------------------------------------
(***************************************************************************)
(* The chains.  Chain and Lookup are recursive functions; that there are   *)
(* such functions, and what they are, is shown along the hops.             *)
(***************************************************************************)
LEMMA HopsInduction ==
  ASSUME NEW n \in Nat, NEW T, 0 \in T, \A m \in 0 .. n - 1 : m \in T => m + 1 \in T
  PROVE  \A m \in 0 .. n : m \in T
<1> DEFINE Bad == {m \in 0 .. n : m \notin T}
<1> SUFFICES ASSUME Bad # {} PROVE FALSE
  OBVIOUS
<1>1. IsWellFoundedOn(OpToRel(<, Nat), Nat)
  BY NatLessThanWellFounded
<1>2. Bad \subseteq Nat
  OBVIOUS
<1> HIDE DEF Bad
<1>3. PICK m \in Bad : \A i \in Bad : <<i, m>> \notin OpToRel(<, Nat)
  BY <1>1, <1>2, WFMin
<1>4. \A i \in Bad : ~(i < m)
  BY <1>2, <1>3 DEF OpToRel
<1>5. m \in 0 .. n /\ m \notin T
  BY DEF Bad
<1>6. m - 1 \in 0 .. n - 1 /\ m - 1 < m /\ m - 1 + 1 = m
  BY <1>5
<1>7. m - 1 \in T
  BY <1>4, <1>5, <1>6 DEF Bad
<1> QED
  BY <1>5, <1>6, <1>7

Last == Cardinality(Key)

LEMMA LastHop == Last \in Nat /\ Hops = 0 .. Last
  BY HashAssumption, FS_CardinalityType DEF Last, Hops

\* Where a record of a chain leads to.
After(p) == IF p = 0 THEN 0 ELSE Offset(idx, p + NextPtr)

IsChain(c, hash, hops) ==
  c = [n \in hops |-> IF n = 0 THEN Offset(idx, Bucket(hash)) ELSE After(c[n - 1])]

LEMMA ChainExists ==
  ASSUME NEW b
  PROVE  IsChain(Chain(b), b, Hops)
<1> DEFINE T == {n \in Nat : \E c : IsChain(c, b, 0 .. n)}
<1>1. 0 \in T
  <2>1. IsChain([n \in 0 .. 0 |-> Offset(idx, Bucket(b))], b, 0 .. 0)
    BY DEF IsChain
  <2> QED
    BY <2>1
<1>2. ASSUME NEW n \in Nat, n \in T PROVE n + 1 \in T
  <2>1. PICK c : IsChain(c, b, 0 .. n)
    BY <1>2
  <2> DEFINE e == [m \in 0 .. n + 1 |-> IF m = n + 1 THEN After(c[n]) ELSE c[m]]
  <2>2. \A m \in 0 .. n : c[m] = IF m = 0 THEN Offset(idx, Bucket(b)) ELSE After(c[m - 1])
    BY <2>1 DEF IsChain
  <2>3. ASSUME NEW m \in 0 .. n + 1
        PROVE  e[m] = IF m = 0 THEN Offset(idx, Bucket(b)) ELSE After(e[m - 1])
    <3>1. CASE m = n + 1
      BY <3>1
    <3>2. CASE m # n + 1
      <4>1. m \in 0 .. n /\ e[m] = c[m]
        BY <3>2
      <4>2. m # 0 => m - 1 \in 0 .. n /\ e[m - 1] = c[m - 1]
        BY <4>1
      <4> HIDE DEF e
      <4> QED
        BY <2>2, <4>1, <4>2
    <3> QED
      BY <3>1, <3>2
  <2>4. IsChain(e, b, 0 .. n + 1)
    BY <2>3 DEF IsChain
  <2> QED
    BY <2>4
<1> HIDE DEF T
<1>3. Last \in T
  <2>1. \A m \in 0 .. Last - 1 : m \in T => m + 1 \in T
    BY <1>2, LastHop
  <2>2. \A m \in 0 .. Last : m \in T
    BY <1>1, <2>1, LastHop, HopsInduction
  <2> QED
    BY <2>2, LastHop
<1>4. \E c : IsChain(c, b, Hops)
  BY <1>3, LastHop DEF T
<1>5. Chain(b) = CHOOSE c : IsChain(c, b, Hops)
  BY DEF Chain, IsChain, After
<1> QED
  BY <1>4, <1>5

\* A chain goes through the records of its bucket in the order of the file, and ends.
LEMMA ChainShape ==
  ASSUME NEW C \in SUBSET Nat, IsIndex(idx, dat, C), NEW b \in 0 .. Buckets - 1
  PROVE  LET c == Chain(b)
             B == InBucket(idx, C, b)
         IN /\ c[0] = Offset(idx, Bucket(b))
            /\ \A n \in 0 .. Last - 1 : c[n + 1] = After(c[n])
            /\ \A n \in 0 .. Last : c[n] \in B \cup {0}
            /\ \A m, n \in 0 .. Last : m < n /\ c[n] # 0 => c[m] # 0 /\ c[m] < c[n]
            /\ c[Last] = 0
            /\ \A q \in B : \E n \in 0 .. Last : c[n] = q
<1> DEFINE c == Chain(b)
           B == InBucket(idx, C, b)
<1>1. Last \in Nat
  BY LastHop
<1>2. /\ c[0] = Offset(idx, Bucket(b))
      /\ \A n \in 0 .. Last - 1 : c[n + 1] = After(c[n])
  <2>1. IsChain(c, b, 0 .. Last)
    BY ChainExists, LastHop
  <2> HIDE DEF c
  <2>2. \A n \in 0 .. Last : c[n] = IF n = 0 THEN Offset(idx, Bucket(b)) ELSE After(c[n - 1])
    BY <2>1 DEF IsChain
  <2> QED
    BY <1>1, <2>2
<1> HIDE DEF c
<1>3. \A q \in B : q \in C /\ q \in Nat /\ q > 0
  <2>1. Buckets \in Nat
    BY HashAssumption
  <2>2. \A q \in B : q \in C /\ q \in Nat /\ q >= Header + 2 * Buckets
    BY DEF IsIndex, InBucket
  <2> HIDE DEF B
  <2> QED
    BY <2>1, <2>2 DEF Header
<1>4. Leads(B, 0, c[0]) /\ \A p \in B : Leads(B, p, After(p))
  <2>1. Leads(B, 0, c[0])
    BY <1>2 DEF IsIndex
  <2>2. ASSUME NEW p \in B PROVE Leads(B, p, After(p))
    <3>1. p \in C /\ Hash[KeyIn(idx, p)] = b /\ p # 0
      BY <1>3 DEF InBucket
    <3> QED
      BY <3>1 DEF IsIndex, After
  <2> QED
    BY <2>1, <2>2
<1> HIDE DEF B
<1>5. \A n \in 0 .. Last : c[n] \in B \cup {0} /\ c[n] \in Nat
  <2> DEFINE T == {n \in 0 .. Last : c[n] \in B \cup {0}}
  <2>1. 0 \in T
    BY <1>1, <1>4 DEF Leads
  <2>2. ASSUME NEW n \in 0 .. Last - 1, n \in T PROVE n + 1 \in T
    <3>1. c[n + 1] = After(c[n]) /\ c[n] \in B \cup {0} /\ n + 1 \in 0 .. Last
      BY <1>1, <1>2, <2>2
    <3>2. After(c[n]) \in B \cup {0}
      BY <1>4, <3>1 DEF Leads, After
    <3> QED
      BY <3>1, <3>2
  <2> HIDE DEF T
  <2>3. \A n \in 0 .. Last : n \in T
    BY <1>1, <2>1, <2>2, HopsInduction
  <2> QED
    BY <1>3, <2>3 DEF T
<1>6. \A n \in 0 .. Last : c[n] # 0 => \A m \in 0 .. Last : m < n => c[m] # 0 /\ c[m] < c[n]
  <2> DEFINE T == {n \in 0 .. Last : c[n] # 0 =>
                     \A m \in 0 .. Last : m < n => c[m] # 0 /\ c[m] < c[n]}
  <2>1. 0 \in T
    BY <1>1
  <2>2. ASSUME NEW n \in 0 .. Last - 1, n \in T PROVE n + 1 \in T
    <3> SUFFICES ASSUME c[n + 1] # 0, NEW m \in 0 .. Last, m < n + 1
                 PROVE  c[m] # 0 /\ c[m] < c[n + 1]
      BY <1>1
    <3>1. c[n + 1] = After(c[n]) /\ n \in 0 .. Last
      BY <1>1, <1>2
    <3>2. c[n] # 0 /\ c[n] \in B
      BY <1>5, <3>1 DEF After
    <3>3. c[n + 1] \in B /\ c[n + 1] > c[n]
      BY <1>4, <3>1, <3>2 DEF Leads
    <3>4. m = n \/ m < n
      BY <1>1
    <3>5. CASE m < n
      <4>1. c[m] # 0 /\ c[m] < c[n]
        BY <2>2, <3>2, <3>5
      <4>2. c[m] \in Nat /\ c[n] \in Nat /\ c[n + 1] \in Nat
        BY <1>1, <1>3, <1>5, <3>1, <3>2, <3>3
      <4> QED
        BY <3>3, <4>1, <4>2
    <3>6. CASE m = n
      <4>1. c[n] \in Nat /\ c[n + 1] \in Nat
        BY <1>3, <3>2, <3>3
      <4> QED
        BY <3>2, <3>3, <3>6, <4>1
    <3> QED
      BY <3>4, <3>5, <3>6
  <2> HIDE DEF T
  <2>3. \A n \in 0 .. Last : n \in T
    BY <1>1, <2>1, <2>2, HopsInduction
  <2> QED
    BY <2>3 DEF T
<1>7. c[Last] = 0
  <2> SUFFICES ASSUME c[Last] # 0 PROVE FALSE
    OBVIOUS
  <2>1. \A n \in 0 .. Last : c[n] \in B
    <3> SUFFICES ASSUME NEW n \in 0 .. Last PROVE c[n] # 0
      BY <1>5
    <3>1. n = Last \/ n < Last
      BY <1>1
    <3> QED
      BY <1>1, <1>6, <3>1
  <2> DEFINE f == [n \in 0 .. Last |-> KeyIn(idx, c[n])]
  <2>2. f \in [0 .. Last -> Key]
    BY <1>3, <2>1 DEF IsIndex
  <2>3. IsFiniteSet(0 .. Last) /\ Cardinality(0 .. Last) = Last + 1
    BY <1>1, FS_Interval
  <2>4. IsFiniteSet(Key) /\ Cardinality(Key) < Cardinality(0 .. Last)
    BY <1>1, <2>3, HashAssumption DEF Last
  <2>5. PICK m, n \in 0 .. Last : m # n /\ f[m] = f[n]
    <3> HIDE DEF f
    <3> QED
      BY <2>2, <2>3, <2>4, FS_PigeonHole
  <2>6. \A i, j \in 0 .. Last : i < j => f[i] # f[j]
    <3> SUFFICES ASSUME NEW i \in 0 .. Last, NEW j \in 0 .. Last, i < j PROVE f[i] # f[j]
      OBVIOUS
    <3>1. c[i] < c[j]
      BY <1>1, <1>3, <1>6, <2>1
    <3>2. c[i] \in C /\ c[j] \in C
      BY <1>3, <2>1
    <3> QED
      BY <3>1, <3>2 DEF IsIndex
  <2>7. m < n \/ n < m
    BY <1>1, <2>5
  <2> QED
    BY <2>5, <2>6, <2>7
<1>8. \A q \in B : \E n \in 0 .. Last : c[n] = q
  <2> SUFFICES ASSUME NEW q \in B PROVE \E n \in 0 .. Last : c[n] = q
    OBVIOUS
  <2> DEFINE T == {n \in 0 .. Last : c[n] = 0 \/ q < c[n] => \E m \in 0 .. Last : c[m] = q}
  <2>1. 0 \in T
    <3>1. q \in Nat /\ q > 0 /\ c[0] \in Nat /\ 0 \in 0 .. Last
      BY <1>1, <1>3, <1>5
    <3>2. c[0] # 0 /\ c[0] <= q
      BY <1>4, <3>1 DEF Leads
    <3>3. ~(c[0] = 0 \/ q < c[0])
      BY <3>1, <3>2
    <3> QED
      BY <3>1, <3>3
  <2>2. ASSUME NEW n \in 0 .. Last - 1, n \in T PROVE n + 1 \in T
    <3> SUFFICES ASSUME c[n + 1] = 0 \/ q < c[n + 1]
                 PROVE  \E m \in 0 .. Last : c[m] = q
      BY <1>1
    <3>1. c[n + 1] = After(c[n]) /\ n \in 0 .. Last
      BY <1>1, <1>2
    <3>2. CASE c[n] = 0 \/ q < c[n] \/ q = c[n]
      BY <2>2, <3>1, <3>2
    <3>3. CASE c[n] # 0 /\ ~(q < c[n]) /\ q # c[n]
      <4>1. c[n] \in B /\ c[n] \in Nat /\ q \in Nat /\ q > c[n]
        BY <1>3, <1>5, <3>1, <3>3
      <4>2. Leads(B, c[n], c[n + 1])
        BY <1>4, <3>1, <4>1
      <4>3. c[n + 1] \in Nat
        BY <1>1, <1>5
      <4>4. c[n + 1] # 0 => c[n + 1] <= q
        BY <4>1, <4>2 DEF Leads
      <4>5. c[n + 1] # 0
        BY <4>1, <4>2 DEF Leads
      <4> QED
        BY <4>1, <4>3, <4>4, <4>5
    <3> QED
      BY <3>2, <3>3
  <2> HIDE DEF T
  <2>3. \A n \in 0 .. Last : n \in T
    BY <1>1, <2>1, <2>2, HopsInduction
  <2> QED
    BY <1>1, <1>7, <2>3 DEF T
<1> QED
  BY <1>2, <1>5, <1>6, <1>7, <1>8 DEF c, B

IsSearch(f, k, hops) ==
  f = [n \in hops |-> [p \in Nat |->
        IF p = 0 \/ n = 0 THEN Absent
        ELSE IF KeyAt(p) = k THEN DatumAt(p)
        ELSE f[n - 1][Offset(idx, p + NextPtr)]]]

LEMMA SearchExists ==
  ASSUME NEW k
  PROVE  \E f : /\ IsSearch(f, k, 0 .. Last)
               /\ Lookup(k) = f[Last][Offset(idx, Bucket(Hash[k]))]
<1> DEFINE T == {n \in Nat : \E f : IsSearch(f, k, 0 .. n)}
           Turn(n, g) == [p \in Nat |->
              IF p = 0 \/ n = 0 THEN Absent
              ELSE IF KeyAt(p) = k THEN DatumAt(p)
              ELSE g[Offset(idx, p + NextPtr)]]
<1>1. 0 \in T
  <2> DEFINE f == [n \in 0 .. 0 |-> [p \in Nat |-> Absent]]
  <2>1. \A n \in 0 .. 0 : n = 0
    OBVIOUS
  <2>2. IsSearch(f, k, 0 .. 0)
    BY <2>1 DEF IsSearch
  <2> QED
    BY <2>2
<1>2. ASSUME NEW n \in Nat, n \in T PROVE n + 1 \in T
  <2>1. PICK f : IsSearch(f, k, 0 .. n)
    BY <1>2
  <2> DEFINE e == [m \in 0 .. n + 1 |-> IF m = n + 1 THEN Turn(m, f[n]) ELSE f[m]]
  <2>2. f = [m \in 0 .. n |-> Turn(m, f[m - 1])]
    BY <2>1 DEF IsSearch
  <2> HIDE DEF Turn
  <2>3. \A m \in 0 .. n : f[m] = Turn(m, f[m - 1])
    BY <2>2
  <2>4. ASSUME NEW m \in 0 .. n + 1
        PROVE  e[m] = Turn(m, e[m - 1])
    <3>1. CASE m = n + 1
      <4>1. e[m] = Turn(m, f[n]) /\ m - 1 = n /\ n \in 0 .. n + 1 /\ n # n + 1
        BY <3>1
      <4>2. e[m - 1] = f[n]
        BY <4>1
      <4> QED
        BY <4>1, <4>2
    <3>2. CASE m # n + 1 /\ m # 0
      <4>1. /\ m \in 0 .. n /\ e[m] = f[m]
            /\ m - 1 \in 0 .. n + 1 /\ m - 1 # n + 1
        BY <3>2
      <4>2. e[m - 1] = f[m - 1]
        BY <4>1
      <4> HIDE DEF e
      <4> QED
        BY <2>3, <4>1, <4>2
    <3>3. CASE m # n + 1 /\ m = 0
      <4>1. m \in 0 .. n /\ e[m] = f[m]
        BY <3>3
      <4>2. \A g1, g2 : Turn(0, g1) = Turn(0, g2)
        BY DEF Turn
      <4> HIDE DEF e
      <4> QED
        BY <2>3, <3>3, <4>1, <4>2
    <3> QED
      BY <3>1, <3>2, <3>3
  <2>5. e = [m \in 0 .. n + 1 |-> Turn(m, e[m - 1])]
    BY <2>4
  <2> HIDE DEF e
  <2>6. IsSearch(e, k, 0 .. n + 1)
    BY <2>5 DEF IsSearch, Turn
  <2> QED
    BY <2>6
<1> HIDE DEF T
<1>3. Last \in T
  <2>1. \A m \in 0 .. Last - 1 : m \in T => m + 1 \in T
    BY <1>2, LastHop
  <2>2. \A m \in 0 .. Last : m \in T
    BY <1>1, <2>1, LastHop, HopsInduction
  <2> QED
    BY <2>2, LastHop
<1>4. \E f : IsSearch(f, k, Hops)
  BY <1>3, LastHop DEF T
<1> DEFINE found == CHOOSE f : IsSearch(f, k, Hops)
<1>5. IsSearch(found, k, 0 .. Last)
  BY <1>4, LastHop
<1>6. Lookup(k) = found[Cardinality(Key)][Offset(idx, Bucket(Hash[k]))]
  BY DEF Lookup, IsSearch
<1> HIDE DEF found
<1>7. Lookup(k) = found[Last][Offset(idx, Bucket(Hash[k]))]
  BY <1>6 DEF Last
<1> QED
  BY <1>5, <1>7

\* A search comes to the linked record that has the key.
LEMMA LookupValue ==
  ASSUME NEW C \in SUBSET Nat, IsIndex(idx, dat, C), NEW k \in Key
  PROVE  /\ \A p \in C : KeyIn(idx, p) = k => Lookup(k) = DatumAt(p)
         /\ (\A p \in C : KeyIn(idx, p) # k) => Lookup(k) = Absent
<1> DEFINE b == Hash[k]
           c == Chain(b)
           B == InBucket(idx, C, b)
           stop(n) == c[n] = 0 \/ KeyIn(idx, c[n]) = k
<1>1. Last \in Nat
  BY LastHop
<1>2. PICK f : /\ IsSearch(f, k, 0 .. Last)
               /\ Lookup(k) = f[Last][Offset(idx, Bucket(b))]
  BY SearchExists
<1>3. \A n \in 0 .. Last, p \in Nat : f[n][p] =
        IF p = 0 \/ n = 0 THEN Absent
        ELSE IF KeyIn(idx, p) = k THEN DatumAt(p)
        ELSE f[n - 1][Offset(idx, p + NextPtr)]
  <2>1. \A n \in 0 .. Last : f[n] = [p \in Nat |->
          IF p = 0 \/ n = 0 THEN Absent
          ELSE IF KeyAt(p) = k THEN DatumAt(p)
          ELSE f[n - 1][Offset(idx, p + NextPtr)]]
    BY <1>2 DEF IsSearch
  <2>2. ASSUME NEW n \in 0 .. Last, NEW p \in Nat
        PROVE  f[n][p] = IF p = 0 \/ n = 0 THEN Absent
                         ELSE IF KeyAt(p) = k THEN DatumAt(p)
                         ELSE f[n - 1][Offset(idx, p + NextPtr)]
    <3>1. f[n] = [q \in Nat |-> IF q = 0 \/ n = 0 THEN Absent
                               ELSE IF KeyAt(q) = k THEN DatumAt(q)
                               ELSE f[n - 1][Offset(idx, q + NextPtr)]]
      BY <2>1
    <3> QED
      BY <3>1
  <2>3. \A p : KeyAt(p) = KeyIn(idx, p)
    BY DEF KeyAt, KeyIn
  <2> QED
    BY <2>2, <2>3
<1>4. /\ c[0] = Offset(idx, Bucket(b))
      /\ \A n \in 0 .. Last - 1 : c[n + 1] = After(c[n])
      /\ \A n \in 0 .. Last : c[n] \in B \cup {0}
      /\ \A m, n \in 0 .. Last : m < n /\ c[n] # 0 => c[m] # 0 /\ c[m] < c[n]
      /\ c[Last] = 0
      /\ \A q \in B : \E n \in 0 .. Last : c[n] = q
  <2>1. b \in 0 .. Buckets - 1
    BY HashAssumption
  <2> QED
    BY <2>1, ChainShape
<1>5. /\ B \subseteq C
      /\ \A p \in C : KeyIn(idx, p) = k => p \in B
      /\ \A p, q \in C : KeyIn(idx, p) = KeyIn(idx, q) => p = q
  <2>1. ASSUME NEW p \in C, NEW q \in C, KeyIn(idx, p) = KeyIn(idx, q) PROVE p = q
    <3>1. p \in Nat /\ q \in Nat /\ ~(p < q) /\ ~(q < p)
      BY <2>1 DEF IsIndex
    <3> QED
      BY <3>1
  <2> QED
    BY <2>1 DEF InBucket
<1> HIDE DEF c, B
<1>6. \A n \in 0 .. Last : c[n] \in Nat
  <2>1. \A q \in B : q \in Nat
    BY <1>5
  <2> QED
    BY <1>4, <2>1
<1>7. ASSUME NEW n \in 0 .. Last, \A m \in 0 .. Last : m < n => ~stop(m)
      PROVE  Lookup(k) = f[Last - n][c[n]]
  <2> DEFINE T == {i \in 0 .. n : Lookup(k) = f[Last - i][c[i]]}
  <2>1. 0 \in T
    BY <1>1, <1>2, <1>4
  <2>2. ASSUME NEW i \in 0 .. n - 1, i \in T PROVE i + 1 \in T
    <3>1. /\ i \in 0 .. Last /\ i < n /\ i \in 0 .. Last - 1 /\ Last - i \in 0 .. Last
          /\ Last - i # 0 /\ Last - i - 1 = Last - (i + 1) /\ i + 1 \in 0 .. n
      BY <1>1
    <3>2. ~stop(i) /\ c[i] \in Nat
      BY <1>6, <1>7, <3>1
    <3>3. f[Last - i][c[i]] = f[Last - i - 1][Offset(idx, c[i] + NextPtr)]
      BY <1>3, <3>1, <3>2
    <3>4. c[i + 1] = Offset(idx, c[i] + NextPtr)
      BY <1>4, <3>1, <3>2 DEF After
    <3> QED
      BY <2>2, <3>1, <3>3, <3>4
  <2> HIDE DEF T
  <2>3. n \in T
    <3>1. \A i \in 0 .. n : i \in T
      BY <2>1, <2>2, HopsInduction
    <3> QED
      BY <3>1
  <2> QED
    BY <2>3 DEF T
<1>8. PICK n \in 0 .. Last : stop(n) /\ \A m \in 0 .. Last : m < n => ~stop(m)
  <2> DEFINE S == {n \in 0 .. Last : stop(n)}
  <2>1. Last \in S /\ S \subseteq Nat
    BY <1>1, <1>4
  <2>2. IsWellFoundedOn(OpToRel(<, Nat), Nat)
    BY NatLessThanWellFounded
  <2> HIDE DEF S
  <2>3. PICK n \in S : \A m \in S : <<m, n>> \notin OpToRel(<, Nat)
    BY <2>1, <2>2, WFMin
  <2>4. \A m \in S : ~(m < n)
    BY <2>1, <2>3 DEF OpToRel
  <2> QED
    BY <2>4 DEF S
<1>9. Lookup(k) = f[Last - n][c[n]]
  BY <1>7, <1>8
<1>10. Last - n \in 0 .. Last /\ c[n] \in Nat
  BY <1>1, <1>6
<1>11. CASE c[n] = 0
  <2>1. Lookup(k) = Absent
    BY <1>3, <1>9, <1>10, <1>11
  <2>2. ASSUME NEW p \in C, KeyIn(idx, p) = k PROVE FALSE
    <3>1. p \in B
      BY <1>5, <2>2
    <3>2. PICK m \in 0 .. Last : c[m] = p
      BY <1>4, <3>1
    <3>3. p # 0
      <4>1. Buckets \in Nat
        BY HashAssumption
      <4>2. p \in Nat /\ p >= Header + 2 * Buckets
        BY DEF IsIndex
      <4> QED
        BY <4>1, <4>2 DEF Header
    <3>4. m < n
      <4>1. m # n /\ ~(n < m)
        BY <1>4, <1>11, <3>2, <3>3
      <4> QED
        BY <1>1, <4>1
    <3> QED
      BY <1>8, <2>2, <3>2, <3>4
  <2> QED
    BY <2>1, <2>2
<1>12. CASE c[n] # 0
  <2>1. c[n] \in C /\ KeyIn(idx, c[n]) = k
    BY <1>4, <1>5, <1>8, <1>12
  <2>2. n # Last /\ Last - n # 0
    BY <1>1, <1>4, <1>12
  <2>3. Lookup(k) = DatumAt(c[n])
    BY <1>3, <1>9, <1>10, <1>12, <2>1, <2>2
  <2> QED
    BY <1>5, <2>1, <2>3
<1> QED
  BY <1>11, <1>12

\* What a linked record holds, while no call replaces.
LEMMA DatumOfRecord ==
  ASSUME NEW C \in SUBSET Nat, IsIndex(idx, dat, C), IsData(dat),
         Kinds \cap {"REPLACE", "STORE"} = {}, NEW p \in C
  PROVE  /\ DatumAt(p) = DatumIn(dat, PtrIn(idx, p))
         /\ DatumAt(p) \in Data
         /\ Readable(dat, Offset(idx, p + DataPtr), DataRecord)
<1>1. HasDatum(idx, dat, p)
  BY DEF IsIndex
<1>2. Whole(dat, PtrIn(idx, p)) /\ Word(idx, p + DataPtr + 1) = 0
  BY <1>1 DEF HasDatum
<1>3. Offset(idx, p + DataPtr) = PtrIn(idx, p)
  BY <1>2 DEF Offset, PtrIn
<1> QED
  BY <1>2, <1>3 DEF Whole, DatumAt, DatumIn, Value, Readable

\* Wherever a process is killed, what can be reached from a bucket is whole
\* (tmdb.cpp:592-679), for handles that insert and fetch.
THEOREM ChainsWhole ==
  ASSUME Kinds \subseteq {"INSERT", "FETCH"}
  PROVE  Spec => []IndexSound
<1>1. Inv => IndexSound
  <2> SUFFICES ASSUME Inv, NEW k \in Key
               PROVE  LET chain == Chain(Hash[k])
                          used  == {n \in Hops : chain[n] # 0}
                      IN /\ chain[Cardinality(Key)] = 0
                         /\ \A n \in used :
                              /\ Readable(idx, chain[n], KeyRecord)
                              /\ KeyAt(chain[n]) \in {j \in Key : Hash[j] = Hash[k]}
                              /\ Readable(dat, Offset(idx, chain[n] + DataPtr), DataRecord)
                              /\ DatumAt(chain[n]) \in Data
                         /\ \A m, n \in used : KeyAt(chain[m]) = KeyAt(chain[n]) => m = n
    BY DEF IndexSound
  <2> DEFINE c == Chain(Hash[k])
  <2>1. PICK C \in SUBSET Nat : IsIndex(idx, dat, C)
    BY DEF Inv, IndexInv, Linking
  <2> DEFINE B == InBucket(idx, C, Hash[k])
  <2>2. Hash[k] \in 0 .. Buckets - 1 /\ Last \in Nat /\ Hops = 0 .. Last
    BY HashAssumption, LastHop
  <2>3. /\ \A n \in 0 .. Last : c[n] \in B \cup {0}
        /\ \A m, n \in 0 .. Last : m < n /\ c[n] # 0 => c[m] # 0 /\ c[m] < c[n]
        /\ c[Last] = 0
    BY <2>1, <2>2, ChainShape
  <2> HIDE DEF c
  <2>4. ASSUME NEW n \in Hops, c[n] # 0
        PROVE  /\ c[n] \in C /\ c[n] \in Nat
               /\ Readable(idx, c[n], KeyRecord)
               /\ KeyAt(c[n]) \in {j \in Key : Hash[j] = Hash[k]}
               /\ Readable(dat, Offset(idx, c[n] + DataPtr), DataRecord)
               /\ DatumAt(c[n]) \in Data
    <3>1. c[n] \in C /\ Hash[KeyIn(idx, c[n])] = Hash[k]
      BY <2>2, <2>3, <2>4 DEF InBucket
    <3>2. Kinds \cap {"REPLACE", "STORE"} = {} /\ IsData(dat)
      BY DEF Inv, IndexInv, FilesInv
    <3> HIDE DEF B
    <3> QED
      BY <2>1, <3>1, <3>2, DatumOfRecord DEF IsIndex, Readable, KeyAt, KeyIn
  <2>5. ASSUME NEW m \in Hops, NEW n \in Hops, c[m] # 0, c[n] # 0,
               KeyAt(c[m]) = KeyAt(c[n])
        PROVE  m = n
    <3>1. c[m] \in C /\ c[n] \in C
      BY <2>4, <2>5
    <3>2. ~(c[m] < c[n]) /\ ~(c[n] < c[m])
      BY <2>1, <2>5, <3>1 DEF IsIndex, KeyAt, KeyIn
    <3>3. ~(m < n) /\ ~(n < m)
      BY <2>2, <2>3, <2>5, <3>2
    <3> QED
      BY <2>2, <3>3
  <2> QED
    BY <2>3, <2>4, <2>5 DEF c, Last
<1>2. Spec => []Inv
  <2>1. "DELETE" \notin Kinds
    OBVIOUS
  <2> QED
    BY <2>1, IndexInvariant
<1> QED
  BY <1>1, <1>2, PTL

-----------------------------------------------------------------------------
(***************************************************************************)
(* The map that handles have which insert and fetch.                       *)
(***************************************************************************)
MapOf == [k \in Key |-> Lookup(k)]

\* What a handle shows of its call.
PhaseOf(h) ==
  IF pc[h] = "idle" THEN "idle" ELSE IF pc[h] \in {"closed", "ended"} THEN "ended"
  ELSE IF pc[h] \in {"unlockIdx", "unlockDat"} THEN "done" ELSE "called"

AskedOf(h) == IF call[h].kind = "FETCH" THEN [call[h] EXCEPT !.value = Absent] ELSE call[h]

GotOf(h) == IF call[h].kind = "FETCH" THEN call[h].value ELSE Absent

LEMMA ShownOf ==
  /\ Phases = [h \in Handle |-> PhaseOf(h)]
  /\ Asked = [h \in Handle |-> AskedOf(h)]
  /\ Fetched = [h \in Handle |-> GotOf(h)]
  BY DEF Phases, Asked, Fetched, PhaseOf, AskedOf, GotOf

\* What the linked records say of the map, in a state and in the next.
MapShape ==
  \A C \in SUBSET Nat :
    IsIndex(idx, dat, C) /\ IsData(dat) /\ Kinds \cap {"REPLACE", "STORE"} = {} =>
      \A k \in Key :
        /\ \A p \in C : KeyIn(idx, p) = k => /\ MapOf[k] = DatumIn(dat, PtrIn(idx, p))
                                            /\ MapOf[k] \in Data
        /\ (\A p \in C : KeyIn(idx, p) # k) => MapOf[k] = Absent

LEMMA MapHasShape == MapShape
<1> SUFFICES ASSUME NEW C \in SUBSET Nat, IsIndex(idx, dat, C), IsData(dat),
                    Kinds \cap {"REPLACE", "STORE"} = {}, NEW k \in Key
             PROVE  /\ \A p \in C : KeyIn(idx, p) = k => /\ MapOf[k] = DatumIn(dat, PtrIn(idx, p))
                                                        /\ MapOf[k] \in Data
                    /\ (\A p \in C : KeyIn(idx, p) # k) => MapOf[k] = Absent
  BY DEF MapShape
<1>1. MapOf[k] = Lookup(k)
  BY DEF MapOf
<1> QED
  BY <1>1, LookupValue, DatumOfRecord

LEMMA MapHasShapeNext == MapShape'
  BY MapHasShape, PTL

\* Appends and steps that leave the files alone do not change the map.
LEMMA GrownKeepsMap ==
  ASSUME FilesInv, NEW C \in SUBSET Nat, IsIndex(idx, dat, C), Grown(C),
         Kinds \cap {"REPLACE", "STORE"} = {}
  PROVE  MapOf' = MapOf
<1>1. ASSUME NEW k \in Key PROVE MapOf'[k] = MapOf[k]
  <2>1. IsData(dat) /\ IsIndex(idx', dat', C) /\ IsData(dat')
    BY DEF FilesInv, Grown
  <2>2. CASE \A p \in C : KeyIn(idx, p) # k
    <3>1. \A p \in C : KeyIn(idx', p) # k
      BY <2>2 DEF Grown
    <3> QED
      BY <2>1, <2>2, <3>1, MapHasShape, MapHasShapeNext DEF MapShape
  <2>3. CASE \E p \in C : KeyIn(idx, p) = k
    <3>1. PICK p \in C : KeyIn(idx, p) = k
      BY <2>3
    <3>2. KeyIn(idx', p) = k /\ PtrIn(idx', p) = PtrIn(idx, p)
      BY <3>1 DEF Grown
    <3>3. Whole(dat, PtrIn(idx, p))
      BY DEF IsIndex, HasDatum
    <3>4. DatumIn(dat', PtrIn(idx', p)) = DatumIn(dat, PtrIn(idx, p))
      BY <3>2, <3>3 DEF Grown
    <3>5. MapOf[k] = DatumIn(dat, PtrIn(idx, p))
      BY <2>1, <3>1, MapHasShape DEF MapShape
    <3>6. MapOf'[k] = DatumIn(dat', PtrIn(idx', p))
      BY <2>1, <3>2, MapHasShapeNext DEF MapShape
    <3> QED
      BY <3>4, <3>5, <3>6
  <2> QED
    BY <2>2, <2>3
<1> QED
  BY <1>1 DEF MapOf

LEMMA UnchangedKeepsMap ==
  ASSUME IndexInv, UNCHANGED files, Kinds \cap {"REPLACE", "STORE"} = {}
  PROVE  MapOf' = MapOf
<1>1. PICK C \in SUBSET Nat : Linking(C)
  BY DEF IndexInv
<1>2. idx' = idx /\ dat' = dat /\ FilesInv /\ IsIndex(idx, dat, C)
  BY <1>1 DEF IndexInv, Linking, files
<1>3. Grown(C)
  BY <1>2 DEF Grown, FilesInv
<1> QED
  BY <1>2, <1>3, GrownKeepsMap

\* Linking a key record adds its key to the map.
LEMMA LinkedAddsToMap ==
  ASSUME IndexInv, NEW h \in Handle, WritePointer(h), db[h].found # "EXIST",
         Kinds \cap {"REPLACE", "STORE"} = {}
  PROVE  /\ MapOf[call[h].key] = Absent
         /\ MapOf' = [MapOf EXCEPT ![call[h].key] = call[h].value]
<1>1. PICK C \in SUBSET Nat : Linking(C)
  BY DEF IndexInv
<1>2. PICK r \in Nat :
           /\ C \cup {r} \in SUBSET Nat /\ IsIndex(idx, dat, C \cup {r})' /\ Inside(idx)'
           /\ Missing(h, C) /\ KeyIn(idx, r) = call[h].key
           /\ DatumIn(dat, PtrIn(idx, r)) = call[h].value
           /\ \A p \in C \cup {r} : /\ KeyIn(idx', p) = KeyIn(idx, p)
                                   /\ PtrIn(idx', p) = PtrIn(idx, p)
  BY <1>1, PointerLinks DEF IndexInv
<1> DEFINE D == C \cup {r}
<1>3. /\ dat' = dat /\ IsData(dat) /\ IsIndex(idx, dat, C)
      /\ D \in SUBSET Nat /\ IsIndex(idx', dat', D) /\ IsData(dat')
  BY <1>1, <1>2 DEF WritePointer, Linking, IndexInv, FilesInv
<1>4. call[h].key \in Key
  <2>1. pc[h] = "pointer" /\ InCall(h)
    BY DEF WritePointer, At, IndexInv, FilesInv
  <2>2. call[h] \in Calls
    BY <2>1 DEF InCall
  <2> QED
    BY <2>2 DEF Calls
<1>5. MapOf[call[h].key] = Absent
  BY <1>2, <1>3, <1>4, MapHasShape DEF MapShape, Missing
<1>6. r \in D /\ C \subseteq D /\ \A p \in D : p = r \/ p \in C
  OBVIOUS
<1> HIDE DEF D
<1>7. MapOf'[call[h].key] = call[h].value
  <2>1. KeyIn(idx', r) = call[h].key /\ PtrIn(idx', r) = PtrIn(idx, r)
    BY <1>2
  <2> QED
    BY <1>2, <1>3, <1>4, <1>6, <2>1, MapHasShapeNext DEF MapShape
<1>8. ASSUME NEW k \in Key, k # call[h].key PROVE MapOf'[k] = MapOf[k]
  <2>1. CASE \A p \in C : KeyIn(idx, p) # k
    <3>1. \A p \in D : KeyIn(idx', p) # k
      BY <1>2, <1>6, <1>8, <2>1
    <3> QED
      BY <1>3, <2>1, <3>1, MapHasShape, MapHasShapeNext DEF MapShape
  <2>2. CASE \E p \in C : KeyIn(idx, p) = k
    <3>1. PICK p \in C : KeyIn(idx, p) = k
      BY <2>2
    <3>2. p \in D /\ KeyIn(idx', p) = k /\ PtrIn(idx', p) = PtrIn(idx, p)
      BY <1>2, <1>6, <3>1
    <3>3. MapOf[k] = DatumIn(dat, PtrIn(idx, p))
      BY <1>3, <3>1, MapHasShape DEF MapShape
    <3>4. MapOf'[k] = DatumIn(dat', PtrIn(idx', p))
      BY <1>3, <3>2, MapHasShapeNext DEF MapShape
    <3> QED
      BY <1>3, <3>2, <3>3, <3>4
  <2> QED
    BY <2>1, <2>2
<1> QED
  BY <1>4, <1>5, <1>7, <1>8 DEF MapOf

\* The step of one handle changes what this handle shows.
LEMMA OneShows ==
  ASSUME NEW h \in Handle,
         \A g \in Handle \ {h} : pc'[g] = pc[g] /\ call'[g] = call[g]
  PROVE  /\ Phases' = [Phases EXCEPT ![h] = PhaseOf(h)']
         /\ Asked' = [Asked EXCEPT ![h] = AskedOf(h)']
         /\ Fetched' = [Fetched EXCEPT ![h] = GotOf(h)']
<1>1. \A g \in Handle \ {h} :
        PhaseOf(g)' = PhaseOf(g) /\ AskedOf(g)' = AskedOf(g) /\ GotOf(g)' = GotOf(g)
  BY DEF PhaseOf, AskedOf, GotOf
<1>2. /\ Phases' = [g \in Handle |-> PhaseOf(g)']
      /\ Asked' = [g \in Handle |-> AskedOf(g)']
      /\ Fetched' = [g \in Handle |-> GotOf(g)']
  BY DEF Phases, Asked, Fetched, PhaseOf, AskedOf, GotOf
<1> QED
  BY <1>1, <1>2, ShownOf

\* A step within a call, while the map stays as it is.
LEMMA WithinCall ==
  ASSUME NEW h \in Handle,
         \A g \in Handle \ {h} : pc'[g] = pc[g] /\ call'[g] = call[g],
         call'[h] = call[h], PhaseOf(h)' = PhaseOf(h), MapOf' = MapOf
  PROVE  UNCHANGED Map!vars
<1>1. AskedOf(h)' = AskedOf(h) /\ GotOf(h)' = GotOf(h)
  BY DEF AskedOf, GotOf
<1>2. Phases' = Phases /\ Asked' = Asked /\ Fetched' = Fetched
  BY <1>1, OneShows, ShownOf
<1> QED
  BY <1>2 DEF Map!vars, MapOf

\* A call or a handle ends.
LEMMA Leaves ==
  ASSUME NEW h \in Handle, call'[h] = NoCall,
         \A g \in Handle \ {h} : pc'[g] = pc[g] /\ call'[g] = call[g], MapOf' = MapOf
  PROVE  /\ PhaseOf(h)' = "idle" => Map!Leave(h, "idle")
         /\ PhaseOf(h)' = "ended" => Map!Leave(h, "ended")
<1>1. AskedOf(h)' = NoCall /\ GotOf(h)' = Absent
  BY DEF AskedOf, GotOf, NoCall
<1>2. /\ Phases' = [Phases EXCEPT ![h] = PhaseOf(h)']
      /\ Asked' = [Asked EXCEPT ![h] = NoCall]
      /\ Fetched' = [Fetched EXCEPT ![h] = Absent]
  BY <1>1, OneShows
<1> QED
  BY <1>2 DEF Map!Leave, Map!NoCall, NoCall, MapOf

LEMMA EndedDies ==
  ASSUME LockInv, NEW h \in Handle, pc[h] # "ended", Ended(h), MapOf' = MapOf,
         IndexInv
  PROVE  [Map!Next]_(Map!vars)
<1>1. /\ pc' = [pc EXCEPT ![h] = "ended"]
      /\ call' = [call EXCEPT ![h] = NoCall]
  BY DEF Ended, GoTo
<1>2. /\ pc'[h] = "ended" /\ call'[h] = NoCall
      /\ \A g \in Handle \ {h} : pc'[g] = pc[g] /\ call'[g] = call[g]
  BY <1>1 DEF LockInv, LockType
<1>3. PhaseOf(h)' = "ended" /\ (PhaseOf(h) = "ended" => pc[h] = "closed")
  BY <1>2 DEF PhaseOf
<1>4. CASE PhaseOf(h) = "ended"
  <2>1. InCall(h) /\ pc[h] = "closed"
    BY <1>3, <1>4 DEF IndexInv, FilesInv
  <2>2. call[h] = NoCall
    BY <2>1 DEF InCall
  <2>3. UNCHANGED Map!vars
    BY <1>2, <1>3, <1>4, <2>2, WithinCall
  <2> QED
    BY <2>3
<1>5. CASE PhaseOf(h) # "ended"
  <2>1. Map!Leave(h, "ended")
    BY <1>2, <1>3, Leaves
  <2>2. Phases[h] # "ended"
    BY <1>5, ShownOf
  <2>3. Map!Die(h)
    BY <2>1, <2>2 DEF Map!Die
  <2> QED
    BY <2>3 DEF Map!Next
<1> QED
  BY <1>4, <1>5

\* An insert takes effect, on a key that is there or on one that is not.
LEMMA InsertDone ==
  ASSUME LockInv, NEW h \in Handle, PhaseOf(h) = "called", call[h] \in Calls,
         call[h].kind = "INSERT", pc' = [pc EXCEPT ![h] = "unlockIdx"], call' = call,
         \/ /\ MapOf[call[h].key] = Absent
            /\ MapOf' = [MapOf EXCEPT ![call[h].key] = call[h].value]
         \/ MapOf[call[h].key] \in Data /\ MapOf' = MapOf
  PROVE  Map!Insert(h)
<1>1. /\ pc'[h] = "unlockIdx" /\ call'[h] = call[h]
      /\ \A g \in Handle \ {h} : pc'[g] = pc[g] /\ call'[g] = call[g]
  BY DEF LockInv, LockType
<1>2. /\ PhaseOf(h)' = "done" /\ AskedOf(h) = call[h] /\ AskedOf(h)' = AskedOf(h)
      /\ GotOf(h)' = GotOf(h)
  BY <1>1 DEF PhaseOf, AskedOf, GotOf
<1>3. /\ Phases' = [Phases EXCEPT ![h] = "done"] /\ Asked' = Asked /\ Fetched' = Fetched
      /\ Phases[h] = "called" /\ Asked[h] = call[h]
  BY <1>1, <1>2, OneShows, ShownOf
<1>4. call[h].key \in Key
  BY DEF Calls
<1>5. MapOf' = [MapOf EXCEPT ![call[h].key] =
                  IF MapOf[call[h].key] = Absent THEN call[h].value ELSE MapOf[call[h].key]]
  <2>1. CASE MapOf[call[h].key] = Absent /\ MapOf' = [MapOf EXCEPT ![call[h].key] = call[h].value]
    BY <2>1
  <2>2. CASE MapOf[call[h].key] \in Data /\ MapOf' = MapOf
    <3>1. MapOf[call[h].key] # Absent
      BY <2>2, TextAssumption
    <3> QED
      BY <2>2, <3>1 DEF MapOf
  <2> QED
    BY <2>1, <2>2
<1> QED
  BY <1>3, <1>5 DEF Map!Insert, MapOf

\* A fetch takes effect when it reads the value.
LEMMA FetchDone ==
  ASSUME LockInv, NEW h \in Handle, PhaseOf(h) = "called",
         call[h] \in Calls, call[h].kind = "FETCH",
         pc' = [pc EXCEPT ![h] = "unlockIdx"],
         call' = [call EXCEPT ![h].value = MapOf[call[h].key]],
         MapOf[call[h].key] \in Data, MapOf' = MapOf
  PROVE  Map!Fetch(h)
<1> DEFINE v == MapOf[call[h].key]
<1>1. /\ pc'[h] = "unlockIdx" /\ call'[h] = [call[h] EXCEPT !.value = v]
      /\ \A g \in Handle \ {h} : pc'[g] = pc[g] /\ call'[g] = call[g]
  BY DEF LockInv, LockType
<1>2. PICK k \in Key : call[h] = [kind |-> "FETCH", key |-> k, value |-> Absent]
  BY DEF Calls, Stores
<1> HIDE DEF v
<1>3. call'[h] = [kind |-> "FETCH", key |-> k, value |-> v]
  BY <1>1, <1>2
<1>4. /\ PhaseOf(h)' = "done" /\ AskedOf(h) = call[h] /\ AskedOf(h)' = AskedOf(h)
      /\ GotOf(h)' = v
  BY <1>1, <1>2, <1>3 DEF PhaseOf, AskedOf, GotOf
<1>5. /\ Phases' = [Phases EXCEPT ![h] = "done"] /\ Asked' = Asked
      /\ Fetched' = [Fetched EXCEPT ![h] = v]
      /\ Phases[h] = "called" /\ Asked[h] = call[h]
  BY <1>1, <1>4, OneShows, ShownOf
<1>6. MapOf[call[h].key] # Absent
  BY TextAssumption
<1> QED
  BY <1>5, <1>6 DEF Map!Fetch, MapOf, v

\* A call begins.
LEMMA BeginsCall ==
  ASSUME LockInv, IndexInv, Kinds \subseteq {"INSERT", "FETCH"}, NEW h \in Handle,
         NEW c \in Calls, Begin(h, c)
  PROVE  Map!Begin(h)
<1>1. /\ pc[h] = "idle" /\ pc' = [pc EXCEPT ![h] = "lockIdx"]
      /\ call' = [call EXCEPT ![h] = c] /\ UNCHANGED files
  BY DEF Begin, At, GoTo
<1>2. /\ pc'[h] = "lockIdx" /\ call'[h] = c
      /\ \A g \in Handle \ {h} : pc'[g] = pc[g] /\ call'[g] = call[g]
  BY <1>1 DEF LockInv, LockType
<1>3. call[h] = NoCall
  BY <1>1 DEF IndexInv, FilesInv, InCall
<1>4. /\ c.kind \in Kinds
      /\ c.kind = "FETCH" => c.value = Absent /\ [c EXCEPT !.value = Absent] = c
  BY DEF Calls, Stores
<1>5. /\ PhaseOf(h) = "idle" /\ PhaseOf(h)' = "called"
      /\ AskedOf(h)' = c /\ GotOf(h)' = Absent /\ GotOf(h) = Absent
  BY <1>1, <1>2, <1>3, <1>4 DEF PhaseOf, AskedOf, GotOf, NoCall
<1>6. /\ Phases' = [Phases EXCEPT ![h] = "called"]
      /\ Asked' = [Asked EXCEPT ![h] = c]
      /\ Fetched' = Fetched /\ Phases[h] = "idle"
  BY <1>2, <1>5, OneShows, ShownOf
<1>7. MapOf' = MapOf
  BY <1>1, UnchangedKeepsMap
<1>8. c \in Map!Calls
  BY DEF Calls, Map!Calls, Stores, Map!Stores
<1> QED
  BY <1>6, <1>7, <1>8 DEF Map!Begin, MapOf

\* A step of a call that changes neither the call nor the map.
LEMMA QuietStep ==
  ASSUME LockInv, NEW h \in Handle,
         pc' = pc \/ \E to : pc' = [pc EXCEPT ![h] = to],
         PhaseOf(h)' = PhaseOf(h), call' = call, MapOf' = MapOf
  PROVE  UNCHANGED Map!vars
<1>1. \A g \in Handle \ {h} : pc'[g] = pc[g] /\ call'[g] = call[g]
  BY DEF LockInv, LockType
<1> QED
  BY <1>1, WithinCall

\* The search ends an insert of a key that is there, and nothing else of it shows.
LEMMA SearchRefines ==
  ASSUME Inv, Kinds \subseteq {"INSERT", "FETCH"}, NEW h \in Handle,
         FindBucket(h) \/ FindRecord(h)
  PROVE  [Map!Next]_(Map!vars)
<1>1. /\ pc[h] \in {"bucket", "record"} /\ PhaseOf(h) = "called" /\ UNCHANGED files
      /\ LockInv /\ IndexInv /\ Kinds \cap {"REPLACE", "STORE"} = {}
  BY DEF FindBucket, FindRecord, At, PhaseOf, Inv
<1>2. call[h] \in Calls /\ call[h].kind \in {"INSERT", "FETCH"} /\ call[h].key \in Key
  <2>1. call[h] \in Calls
    BY <1>1 DEF IndexInv, FilesInv, InCall
  <2> QED
    BY <2>1 DEF Calls
<1>3. MapOf' = MapOf
  BY <1>1, UnchangedKeepsMap
<1>4. ASSUME NEW to \in {"record", "data", "read", "missing"},
             pc' = pc \/ pc' = [pc EXCEPT ![h] = to], call' = call
      PROVE  UNCHANGED Map!vars
  <2>1. pc'[h] \in {pc[h], to}
    BY <1>1, <1>4 DEF LockInv, LockType
  <2>2. PhaseOf(h)' = PhaseOf(h)
    BY <1>1, <2>1 DEF PhaseOf
  <2> QED
    BY <1>1, <1>3, <1>4, <2>2, QuietStep
<1>5. ASSUME NEW d, Found(h, "FIRST", d) \/ Found(h, "NOTEXIST", d)
      PROVE  UNCHANGED Map!vars
  <2>1. AfterMiss(call[h].kind) \in {"data", "missing"}
    BY <1>2 DEF AfterMiss
  <2>2. call' = call /\ pc' = [pc EXCEPT ![h] = AfterMiss(call[h].kind)]
    BY <1>5, <2>1 DEF Found, GoTo
  <2> QED
    BY <1>4, <2>1, <2>2
<1>6. CASE FindBucket(h)
  <2>1. \/ \E d : Found(h, "FIRST", d)
        \/ call' = call /\ pc' = [pc EXCEPT ![h] = "record"]
    BY <1>6 DEF FindBucket, GoTo
  <2> QED
    BY <1>4, <1>5, <2>1
<1>7. CASE FindRecord(h)
  <2>1. pc[h] = "record"
    BY <1>7 DEF FindRecord, At
  <2>2. \/ Ended(h)
        \/ \E d : Found(h, "NOTEXIST", d)
        \/ call' = call /\ pc' = pc
        \/ /\ KeyIn(idx, db[h].idxoff) = call[h].key
           /\ \E d : Found(h, "EXIST", d)
    BY <1>7 DEF FindRecord, KeyIn
  <2>3. ASSUME KeyIn(idx, db[h].idxoff) = call[h].key, NEW d, Found(h, "EXIST", d)
        PROVE  [Map!Next]_(Map!vars)
    <3>1. AfterExist(call[h].kind) = IF call[h].kind = "INSERT" THEN "unlockIdx" ELSE "read"
      BY <1>2 DEF AfterExist
    <3>2. /\ call' = call
          /\ pc' = [pc EXCEPT ![h] = IF call[h].kind = "INSERT" THEN "unlockIdx" ELSE "read"]
      BY <2>3, <3>1 DEF Found, GoTo
    <3>3. CASE call[h].kind = "FETCH"
      <4>1. call' = call /\ pc' = [pc EXCEPT ![h] = "read"]
        BY <3>2, <3>3
      <4> QED
        BY <1>4, <4>1
    <3>4. CASE call[h].kind = "INSERT"
      <4>1. call' = call /\ pc' = [pc EXCEPT ![h] = "unlockIdx"]
        BY <3>2, <3>4
      <4>2. PICK C \in SUBSET Nat : Linking(C)
        BY <1>1 DEF IndexInv
      <4>3. IsIndex(idx, dat, C) /\ IsData(dat) /\ db[h].idxoff \in C
        BY <1>1, <2>1, <4>2 DEF Linking, Knows, Reached, Mine, InBucket, IndexInv, FilesInv
      <4>4. MapOf[call[h].key] \in Data
        BY <1>1, <1>2, <2>3, <4>3, MapHasShape DEF MapShape
      <4>5. Map!Insert(h)
        BY <1>1, <1>2, <1>3, <3>4, <4>1, <4>4, InsertDone
      <4> QED
        BY <4>5 DEF Map!Next
    <3> QED
      BY <1>2, <3>3, <3>4
  <2>4. CASE Ended(h)
    BY <1>1, <1>3, <2>1, <2>4, EndedDies
  <2>5. CASE call' = call /\ pc' = pc
    BY <1>4, <2>5
  <2> QED
    BY <1>5, <2>2, <2>3, <2>4, <2>5
<1> QED
  BY <1>6, <1>7

\* Appends do not show, and linking the record is the insert.
LEMMA StoreRefines ==
  ASSUME Inv, Kinds \subseteq {"INSERT", "FETCH"}, NEW h \in Handle,
         WriteData(h) \/ WriteKey(h) \/ WritePointer(h) \/ Tear(h)
  PROVE  [Map!Next]_(Map!vars)
<1>1. PICK C \in SUBSET Nat : Linking(C)
  BY DEF Inv, IndexInv
<1>2. /\ pc[h] \in {"data", "key", "pointer"} /\ PhaseOf(h) = "called"
      /\ LockInv /\ IndexInv /\ FilesInv /\ Kinds \cap {"REPLACE", "STORE"} = {}
  BY DEF WriteData, WriteKey, WritePointer, Tear, At, PhaseOf, Inv, IndexInv
<1>3. call[h] \in Calls /\ call[h].kind = "INSERT"
  <2>1. call[h] \in Calls
    BY <1>2 DEF FilesInv, InCall
  <2>2. call[h].kind \in Stores
    BY <1>1, <1>2 DEF Linking, Knows
  <2> QED
    BY <2>1, <2>2 DEF Calls, Stores
<1>4. WriteData(h) \/ WriteKey(h) \/ Tear(h) => MapOf' = MapOf
  <2>1. IsIndex(idx, dat, C)
    BY <1>1 DEF Linking
  <2> QED
    BY <1>1, <1>2, <2>1, AppendGrows, GrownKeepsMap
<1>5. CASE WriteData(h) \/ WriteKey(h)
  <2>1. PICK to \in {"key", "pointer"} : pc' = [pc EXCEPT ![h] = to]
    BY <1>5 DEF WriteData, WriteKey, GoTo
  <2>2. call' = call /\ pc'[h] = to
    BY <1>2, <1>5, <2>1 DEF WriteData, WriteKey, LockInv, LockType
  <2>3. PhaseOf(h)' = PhaseOf(h)
    BY <1>2, <2>1, <2>2 DEF PhaseOf
  <2> QED
    BY <1>2, <1>4, <1>5, <2>1, <2>2, <2>3, QuietStep
<1>6. CASE Tear(h)
  BY <1>2, <1>4, <1>6, EndedDies DEF Tear
<1>7. CASE WritePointer(h)
  <2>1. pc[h] = "pointer" /\ pc' = [pc EXCEPT ![h] = "unlockIdx"] /\ call' = call
    BY <1>7 DEF WritePointer, At, GoTo
  <2>2. db[h].found # "EXIST"
    BY <1>1, <1>3, <2>1 DEF Linking, Knows, Outcome
  <2>3. /\ MapOf[call[h].key] = Absent
        /\ MapOf' = [MapOf EXCEPT ![call[h].key] = call[h].value]
    BY <1>2, <1>7, <2>2, LinkedAddsToMap
  <2>4. Map!Insert(h)
    BY <1>2, <1>3, <2>1, <2>3, InsertDone
  <2> QED
    BY <2>4 DEF Map!Next
<1> QED
  BY <1>5, <1>6, <1>7

\* A fetch reads the value that its key has in the map.
LEMMA ReadRefines ==
  ASSUME Inv, Kinds \subseteq {"INSERT", "FETCH"}, NEW h \in Handle, ReadData(h)
  PROVE  [Map!Next]_(Map!vars)
<1>1. PICK C \in SUBSET Nat : Linking(C)
  BY DEF Inv, IndexInv
<1>2. /\ pc[h] = "read" /\ PhaseOf(h) = "called" /\ UNCHANGED files
      /\ LockInv /\ IndexInv /\ FilesInv /\ Kinds \cap {"REPLACE", "STORE"} = {}
  BY DEF ReadData, At, PhaseOf, Inv, IndexInv
<1>3. call[h] \in Calls /\ call[h].kind = "FETCH" /\ call[h].key \in Key
  <2>1. call[h] \in Calls
    BY <1>2 DEF FilesInv, InCall
  <2>2. call[h].kind = "FETCH"
    BY <1>2 DEF LockInv, HasLocks
  <2> QED
    BY <2>1, <2>2 DEF Calls
<1>4. MapOf' = MapOf
  BY <1>2, UnchangedKeepsMap
<1>5. MapOf[call[h].key] = Value(db[h].datoff) /\ MapOf[call[h].key] \in Data
  <2>1. PICK p \in C : KeyIn(idx, p) = call[h].key /\ db[h].datoff = PtrIn(idx, p)
    BY <1>1, <1>2 DEF Linking, Knows
  <2>2. IsIndex(idx, dat, C) /\ IsData(dat)
    BY <1>1, <1>2 DEF Linking, FilesInv
  <2>3. /\ MapOf[call[h].key] = DatumIn(dat, PtrIn(idx, p))
        /\ MapOf[call[h].key] \in Data
    BY <1>2, <1>3, <2>1, <2>2, MapHasShape DEF MapShape
  <2> QED
    BY <2>1, <2>3 DEF Value, DatumIn
<1>6. CASE Ended(h)
  BY <1>2, <1>4, <1>6, EndedDies
<1>7. CASE ~Ended(h)
  <2>1. /\ pc' = [pc EXCEPT ![h] = "unlockIdx"]
        /\ call' = [call EXCEPT ![h].value = Value(db[h].datoff)]
    BY <1>7 DEF ReadData, GoTo
  <2>2. call' = [call EXCEPT ![h].value = MapOf[call[h].key]]
    BY <1>5, <2>1
  <2>3. Map!Fetch(h)
    BY <1>2, <1>3, <1>4, <1>5, <2>1, <2>2, FetchDone
  <2> QED
    BY <2>3 DEF Map!Next
<1> QED
  BY <1>6, <1>7

\* What happens before and after the search of a call, and between calls.
LEMMA OutsideRefines ==
  ASSUME Inv, Kinds \subseteq {"INSERT", "FETCH"}, NEW h \in Handle,
         \/ LockIdx(h) \/ LockDat(h) \/ UnlockIdx(h) \/ UnlockDat(h)
         \/ Close(h) \/ Open(h) \/ Kill(h) \/ FetchMissing(h)
  PROVE  [Map!Next]_(Map!vars)
<1>1. /\ LockInv /\ IndexInv /\ FilesInv /\ UNCHANGED files
      /\ Kinds \cap {"REPLACE", "STORE"} = {}
  BY DEF Inv, IndexInv, LockIdx, LockDat, Flock, UnlockIdx, UnlockDat, Close, Open, Kill,
     FetchMissing
<1>2. MapOf' = MapOf
  BY <1>1, UnchangedKeepsMap
<1>3. CASE LockIdx(h) \/ LockDat(h) \/ UnlockIdx(h)
  <2>1. /\ call' = call
        /\ \/ pc' = pc
           \/ pc[h] = "lockIdx" /\ pc' = [pc EXCEPT ![h] = "lockDat"]
           \/ pc[h] = "lockDat" /\ pc' = [pc EXCEPT ![h] = "bucket"]
           \/ pc[h] = "unlockIdx" /\ pc' = [pc EXCEPT ![h] = "unlockDat"]
    BY <1>3 DEF LockIdx, LockDat, Flock, UnlockIdx, At, GoTo
  <2>2. \/ pc'[h] = pc[h]
        \/ pc[h] = "lockIdx" /\ pc'[h] = "lockDat"
        \/ pc[h] = "lockDat" /\ pc'[h] = "bucket"
        \/ pc[h] = "unlockIdx" /\ pc'[h] = "unlockDat"
    BY <1>1, <2>1 DEF LockInv, LockType
  <2>3. PhaseOf(h)' = PhaseOf(h)
    BY <2>2 DEF PhaseOf
  <2> QED
    BY <1>1, <1>2, <2>1, <2>3, QuietStep
<1>4. CASE UnlockDat(h)
  <2>1. /\ pc[h] = "unlockDat" /\ pc' = [pc EXCEPT ![h] = "idle"]
        /\ call' = [call EXCEPT ![h] = NoCall]
    BY <1>4 DEF UnlockDat, At, GoTo
  <2>2. /\ pc'[h] = "idle" /\ call'[h] = NoCall
        /\ \A g \in Handle \ {h} : pc'[g] = pc[g] /\ call'[g] = call[g]
    BY <1>1, <2>1 DEF LockInv, LockType
  <2>3. PhaseOf(h) = "done" /\ PhaseOf(h)' = "idle"
    BY <2>1, <2>2 DEF PhaseOf
  <2>4. Map!Leave(h, "idle")
    BY <1>2, <2>2, <2>3, Leaves
  <2>5. Phases[h] = "done"
    BY <2>3, ShownOf
  <2>6. Map!Return(h)
    BY <2>4, <2>5 DEF Map!Return
  <2> QED
    BY <2>6 DEF Map!Next
<1>5. ASSUME NEW from \in {"idle", "ended"}, NEW to \in {"closed", "idle"},
             from # to, pc[h] = from, pc' = [pc EXCEPT ![h] = to], call' = call
      PROVE  /\ pc'[h] = to /\ call'[h] = NoCall
             /\ \A g \in Handle \ {h} : pc'[g] = pc[g] /\ call'[g] = call[g]
  <2>1. call[h] = NoCall
    BY <1>1, <1>5 DEF FilesInv, InCall
  <2> QED
    BY <1>1, <1>5, <2>1 DEF LockInv, LockType
<1>6. CASE Close(h)
  <2>1. pc[h] = "idle" /\ pc' = [pc EXCEPT ![h] = "closed"] /\ call' = call
    BY <1>6 DEF Close, At, GoTo
  <2>2. /\ pc'[h] = "closed" /\ call'[h] = NoCall
        /\ \A g \in Handle \ {h} : pc'[g] = pc[g] /\ call'[g] = call[g]
    BY <1>5, <2>1
  <2>3. PhaseOf(h) = "idle" /\ PhaseOf(h)' = "ended"
    BY <2>1, <2>2 DEF PhaseOf
  <2>4. Map!Leave(h, "ended")
    BY <1>2, <2>2, <2>3, Leaves
  <2>5. Phases[h] = "idle"
    BY <2>3, ShownOf
  <2>6. Map!Die(h)
    BY <2>4, <2>5 DEF Map!Die
  <2> QED
    BY <2>6 DEF Map!Next
<1>7. CASE Open(h)
  <2>1. pc[h] = "ended" /\ pc' = [pc EXCEPT ![h] = "idle"] /\ call' = call
    BY <1>7 DEF Open, At, GoTo
  <2>2. /\ pc'[h] = "idle" /\ call'[h] = NoCall
        /\ \A g \in Handle \ {h} : pc'[g] = pc[g] /\ call'[g] = call[g]
    BY <1>5, <2>1
  <2>3. PhaseOf(h) = "ended" /\ PhaseOf(h)' = "idle"
    BY <2>1, <2>2 DEF PhaseOf
  <2>4. Map!Leave(h, "idle")
    BY <1>2, <2>2, <2>3, Leaves
  <2>5. Phases[h] = "ended"
    BY <2>3, ShownOf
  <2>6. Map!Open(h)
    BY <2>4, <2>5 DEF Map!Open
  <2> QED
    BY <2>6 DEF Map!Next
<1>8. CASE Kill(h) \/ FetchMissing(h)
  <2>1. Ended(h) /\ pc[h] # "ended"
    BY <1>8 DEF Kill, FetchMissing, At
  <2> QED
    BY <1>1, <1>2, <2>1, EndedDies
<1> QED
  BY <1>3, <1>4, <1>6, <1>7, <1>8

\* The map of a new database is empty.
LEMMA InitMap ==
  ASSUME Init, Kinds \cap {"REPLACE", "STORE"} = {}
  PROVE  Map!Init
<1>1. IsIndex(idx, dat, {}) /\ IsData(dat)
  BY InitLinks
<1>2. \A k \in Key : MapOf[k] = Absent
  BY <1>1, MapHasShape DEF MapShape
<1>3. MapOf = [k \in Key |-> Absent]
  BY <1>2 DEF MapOf
<1>4. \A h \in Handle : pc[h] = "idle" /\ call[h] = NoCall
  BY DEF Init
<1>5. ASSUME NEW h \in Handle
      PROVE  PhaseOf(h) = "idle" /\ AskedOf(h) = NoCall /\ GotOf(h) = Absent
  <2>1. pc[h] = "idle" /\ call[h] = NoCall /\ call[h].kind # "FETCH"
    BY <1>4 DEF NoCall
  <2> QED
    BY <2>1 DEF PhaseOf, AskedOf, GotOf
<1> QED
  BY <1>3, <1>5, ShownOf DEF Map!Init, Map!NoCall, NoCall, MapOf

\* Handles that insert and fetch have a map: every call takes effect at one moment,
\* a fetch reads the last value, and killed handles leave the map as it was or with
\* their insert done, for any number of handles, keys, values and buckets.
THEOREM Refinement ==
  ASSUME Kinds \subseteq {"INSERT", "FETCH"}
  PROVE  Spec => ImplementsMap
<1>1. Init => Map!Init
  BY InitMap
<1>2. Inv /\ [Next]_vars => [Map!Next]_(Map!vars)
  <2> SUFFICES ASSUME Inv, [Next]_vars PROVE [Map!Next]_(Map!vars)
    OBVIOUS
  <2>1. CASE UNCHANGED vars
    <3>1. pc' = pc /\ call' = call /\ UNCHANGED files
      BY <2>1 DEF vars, files
    <3>2. MapOf' = MapOf
      BY <3>1, UnchangedKeepsMap DEF Inv
    <3>3. Phases' = Phases /\ Asked' = Asked /\ Fetched' = Fetched
      BY <3>1 DEF Phases, Asked, Fetched
    <3> QED
      BY <3>2, <3>3 DEF Map!vars, MapOf
  <2>2. ASSUME NEW h \in Handle, NEW c \in Calls, Begin(h, c)
        PROVE  [Map!Next]_(Map!vars)
    <3>1. Map!Begin(h)
      BY <2>2, BeginsCall DEF Inv
    <3> QED
      BY <3>1 DEF Map!Next
  <2>3. ASSUME NEW h \in Handle, MarkDeleted(h) \/ Unchain(h) PROVE FALSE
    BY <2>3 DEF MarkDeleted, Unchain, At, Inv, OrderInv, InOrder
  <2>4. ASSUME NEW h \in Handle,
               \/ LockIdx(h) \/ LockDat(h) \/ UnlockIdx(h) \/ UnlockDat(h)
               \/ Close(h) \/ Open(h) \/ Kill(h) \/ FetchMissing(h)
        PROVE  [Map!Next]_(Map!vars)
    BY <2>4, OutsideRefines
  <2>5. ASSUME NEW h \in Handle, FindBucket(h) \/ FindRecord(h)
        PROVE  [Map!Next]_(Map!vars)
    BY <2>5, SearchRefines
  <2>6. ASSUME NEW h \in Handle, ReadData(h) PROVE [Map!Next]_(Map!vars)
    BY <2>6, ReadRefines
  <2>7. ASSUME NEW h \in Handle, WriteData(h) \/ WriteKey(h) \/ WritePointer(h) \/ Tear(h)
        PROVE  [Map!Next]_(Map!vars)
    BY <2>7, StoreRefines
  <2> QED
    BY <2>1, <2>2, <2>3, <2>4, <2>5, <2>6, <2>7 DEF Next, Step
<1>3. Spec => []Inv
  <2>1. "DELETE" \notin Kinds
    OBVIOUS
  <2> QED
    BY <2>1, IndexInvariant
<1> QED
  BY <1>1, <1>2, <1>3, PTL DEF Spec, ImplementsMap, Map!Spec
=============================================================================
