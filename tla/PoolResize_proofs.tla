-------------------------- MODULE PoolResize_proofs --------------------------
(***************************************************************************)
(* Proofs about PoolResize for any pools and sizes: what ends the server,  *)
(* that no more memory is given out than there is, that a configuration    *)
(* which fits is in force when its request is done, and that one which     *)
(* does not fit falls short of nothing but memory.                         *)
(***************************************************************************)
EXTENDS PoolResize, Sums

Exists(j) == listener.config[j].pool \in DOMAIN size

\* The listener works on a configuration, at one of its entries.
Working ==
  /\ listener \in [at : {"shrink", "grow"}, config : Configs, i : Nat, read : BOOLEAN]
  /\ listener.i \in DOMAIN listener.config

\* The pools of a configuration exist as far as the first loop has got, all of them
\* in the second loop; those of a partition exist from the start, since what the
\* scheduler read only names pools that exist, and no pool is ever removed.
KnownPools ==
  /\ DOMAIN stats \subseteq DOMAIN size
  /\ listener # Idle =>
       /\ Working
       /\ \A j \in DOMAIN listener.config :
            j < listener.i \/ listener.at = "grow" \/ listener.read => Exists(j)
  /\ ServerEnds

-----------------------------------------------------------------------------
\* A configuration is a sequence with at least one entry.
LEMMA ConfigShape ==
  ASSUME NEW config \in Configs
  PROVE  /\ Len(config) \in Nat \ {0} /\ DOMAIN config = 1 .. Len(config)
         /\ config # <<>>
  <1>1. PICK n \in 1 .. Cardinality(Pool) : config \in [1 .. n -> Entry]
    BY DEF Configs
  <1>2. n \in Nat \ {0} /\ config \in Seq(Entry)
    BY <1>1
  <1>3. Len(config) = n /\ DOMAIN config = 1 .. n
    BY <1>1, <1>2
  <1> QED
    BY <1>2, <1>3

\* Requests do not disturb each other: while the listener works on a configuration
\* there is no other, and without one only the pools that exist matter.
LEMMA RequestKeeps ==
  ASSUME KnownPools, listener = Idle, UNCHANGED listener,
         DOMAIN stats' \subseteq DOMAIN size', ServerEnds'
  PROVE  KnownPools'
  BY DEF KnownPools

\* A configuration is begun at its first entry, and a partition names the pools
\* that the scheduler read.
LEMMA StartKeeps ==
  ASSUME KnownPools, NEW config \in Configs, NEW read \in BOOLEAN, Start(config, read),
         read => PoolsOf(config) = DOMAIN stats
  PROVE  KnownPools'
  <1>1. /\ up /\ up' = up /\ size' = size /\ stats' = NoPools
        /\ listener' = [at |-> "shrink", config |-> config, i |-> 1, read |-> read]
    BY DEF Start, Accepting
  <1>2. Working'
    BY <1>1, ConfigShape DEF Working
  <1>3. ASSUME NEW j \in DOMAIN config, j < 1 \/ read PROVE config[j].pool \in DOMAIN size
    <2>1. read
      BY <1>3, ConfigShape
    <2> QED
      BY <2>1 DEF PoolsOf, KnownPools
  <1>4. DOMAIN stats' \subseteq DOMAIN size'
    BY <1>1 DEF NoPools
  <1> QED
    BY <1>1, <1>2, <1>3, <1>4 DEF KnownPools, ServerEnds, Exists

\* A turn of a loop looks at a pool that exists, and resizing removes none.
LEMMA TurnKeeps ==
  ASSUME KnownPools, NEW at \in {"shrink", "grow"}, NEW resize \in BOOLEAN, NEW next,
         Turn(at, resize, next),
         next # Idle => next = Growing /\ at = "shrink"
  PROVE  KnownPools'
  <1>1. /\ up /\ up' = up /\ listener.at = at /\ stats' = stats
        /\ Exists(listener.i)
        /\ listener' = IF Last THEN next ELSE [listener EXCEPT !.i = @ + 1]
    BY DEF Turn, Exists, Target
  <1>2. DOMAIN size' = DOMAIN size
    BY DEF Turn, Resized
  <1>3. /\ Working
        /\ \A j \in DOMAIN listener.config :
             j < listener.i \/ listener.at = "grow" \/ listener.read => Exists(j)
    BY <1>1 DEF KnownPools, Idle
  <1>4. /\ Len(listener.config) \in Nat \ {0}
        /\ DOMAIN listener.config = 1 .. Len(listener.config) /\ listener.i \in Nat
    BY <1>3, ConfigShape DEF Working
  <1>5. DOMAIN stats' \subseteq DOMAIN size' /\ ServerEnds'
    BY <1>1, <1>2 DEF KnownPools, ServerEnds
  <1>6. CASE ~Last
    <2>1. /\ listener' = [listener EXCEPT !.i = @ + 1]
          /\ listener.i + 1 \in DOMAIN listener.config
      BY <1>1, <1>3, <1>4, <1>6 DEF Last, Working
    <2>2. /\ Working' /\ listener'.config = listener.config /\ listener'.at = at
          /\ listener'.read = listener.read /\ listener'.i = listener.i + 1
      BY <2>1, <1>1, <1>3, <1>4 DEF Working
    <2>3. \A j \in DOMAIN listener.config : j < listener.i + 1 => j < listener.i \/ j = listener.i
      BY <1>4
    <2> QED
      BY <2>2, <2>3, <1>1, <1>2, <1>3, <1>5 DEF KnownPools, Exists
  <1>7. CASE Last /\ next = Idle
    BY <1>1, <1>5, <1>7 DEF KnownPools
  <1>8. CASE Last /\ next = Growing /\ at = "shrink"
    <2>1. listener' = [listener EXCEPT !.at = "grow", !.i = 1]
      BY <1>1, <1>8 DEF Growing
    <2>2. 1 \in DOMAIN listener.config
      BY <1>4
    <2>3. Working' /\ listener'.config = listener.config
      BY <2>1, <2>2, <1>3 DEF Working
    <2>4. \A j \in DOMAIN listener.config : j < listener.i \/ j = listener.i
      BY <1>4, <1>8 DEF Last
    <2>5. \A j \in DOMAIN listener.config : Exists(j)
      BY <2>4, <1>1, <1>3
    <2> QED
      BY <2>3, <2>5, <1>2, <1>5 DEF KnownPools, Exists
  <1> QED
    BY <1>6, <1>7, <1>8

\* A pool that does not exist is met in the first loop, and not by a partition.
LEMMA UnknownKeeps ==
  ASSUME KnownPools, UnknownPool
  PROVE  KnownPools'
  <1>1. /\ listener.at # "accept" /\ ~Exists(listener.i)
        /\ UNCHANGED <<size, listener, stats>>
    BY DEF UnknownPool, Exists, Target
  <1>2. /\ Working
        /\ \A j \in DOMAIN listener.config :
             j < listener.i \/ listener.at = "grow" \/ listener.read => Exists(j)
    BY <1>1 DEF KnownPools, Idle
  <1>3. listener.at = "shrink" /\ ~listener.read
    BY <1>1, <1>2 DEF Working
  <1>4. listener' # Idle /\ Target'.pool \notin DOMAIN size'
    BY <1>1 DEF Idle, Exists, Target
  <1>5. ServerEnds'
    BY <1>1, <1>3, <1>4 DEF ServerEnds
  <1> QED
    BY <1>1, <1>2, <1>5 DEF KnownPools, Working, Exists

-----------------------------------------------------------------------------
\* The pools of a configuration in work exist as far as the loops have got, and
\* those of a partition all do (executeNewConfig, get_cache_stats).
THEOREM Known == Spec => []KnownPools
  <1>1. Init => KnownPools
    BY DEF Init, KnownPools, ServerEnds, NoPools
  <1>2. KnownPools /\ [Next]_vars => KnownPools'
    <2> SUFFICES ASSUME KnownPools, [Next]_vars PROVE KnownPools'
      OBVIOUS
    <2>1. ASSUME NEW p \in Pool, AddPool(p) PROVE KnownPools'
      <3>1. listener = Idle /\ UNCHANGED <<listener, stats>>
        BY <2>1 DEF AddPool, Accepting
      <3>2. DOMAIN size \subseteq DOMAIN size'
        BY <2>1 DEF AddPool
      <3>3. ServerEnds'
        <4>1. CASE PoolSize <= Unreserved
          BY <2>1, <4>1 DEF AddPool, Accepting, ServerEnds
        <4>2. CASE ~(PoolSize <= Unreserved)
          <5>1. size' = size /\ p \notin DOMAIN size
            BY <2>1, <4>2 DEF AddPool
          <5>2. DOMAIN size' # Pool /\ ~(PoolSize <= Unreserved')
            BY <4>2, <5>1 DEF Unreserved
          <5> QED
            BY <3>1, <5>2 DEF ServerEnds
        <4> QED
          BY <4>1, <4>2
      <3> QED
        BY <3>1, <3>2, <3>3, RequestKeeps DEF KnownPools
    <2>2. CASE ReadStats
      <3>1. listener = Idle /\ UNCHANGED listener
        BY <2>2 DEF ReadStats, Accepting
      <3>2. DOMAIN stats' = DOMAIN size'
        BY <2>2 DEF ReadStats, Stats
      <3>3. ServerEnds'
        BY <2>2 DEF ReadStats, Accepting, ServerEnds
      <3> QED
        BY <3>1, <3>2, <3>3, RequestKeeps
    <2>3. ASSUME NEW config \in Configs, SendPartition(config) PROVE KnownPools'
      BY <2>3, StartKeeps DEF SendPartition
    <2>4. ASSUME NEW config \in Configs, SendAllocation(config) PROVE KnownPools'
      BY <2>4, StartKeeps DEF SendAllocation
    <2>5. CASE Shrink
      <3> DEFINE resize == Curr > Target.units
      <3>1. resize \in BOOLEAN /\ Turn("shrink", resize, Growing)
        BY <2>5 DEF Shrink
      <3> HIDE DEF resize
      <3> QED
        BY <3>1, TurnKeeps
    <2>6. CASE Grow
      <3> DEFINE resize == Curr < Target.units
      <3>1. resize \in BOOLEAN /\ Turn("grow", resize, Idle)
        BY <2>6 DEF Grow
      <3> HIDE DEF resize
      <3> QED
        BY <3>1, TurnKeeps
    <2>7. CASE UnknownPool
      BY <2>7, UnknownKeeps
    <2>8. CASE UNCHANGED vars
      <3>1. UNCHANGED <<size, up, listener, stats>>
        BY <2>8 DEF vars
      <3>2. ServerEnds'
        BY <3>1 DEF KnownPools, ServerEnds, Target, Unreserved
      <3> QED
        BY <3>1, <3>2 DEF KnownPools, Working, Exists
    <2> QED
      BY <2>1, <2>2, <2>3, <2>4, <2>5, <2>6, <2>7, <2>8 DEF Next
  <1> QED
    BY <1>1, <1>2, PTL DEF Spec

\* The server ends when it is asked for a pool without memory for one, or in the first
\* loop of a configuration, at an entry that names a pool nobody has created; a
\* partition of what the scheduler read never ends it (addpool_, executeNewConfig).
THEOREM WhatEndsTheServer == Spec => []ServerEnds
  <1>1. KnownPools => ServerEnds
    BY DEF KnownPools
  <1> QED
    BY <1>1, Known, PTL

-----------------------------------------------------------------------------
\* What Total computes is a sum.
LEMMA TotalIsSum ==
  ASSUME NEW f
  PROVE  Total(f) = Sum(f, DOMAIN f)
  BY DEF Total, MapThenSumSet, MapThenFoldSet, IsSum, Sums, Sum, First

\* Whole units.
LEMMA Units ==
  ASSUME NEW n \in Nat, NEW u \in Nat
  PROVE  /\ InUnits(n) \in Nat /\ u * Unit \in Nat
         /\ Unit * InUnits(n) <= n
         /\ InUnits(n) < u => n < u * Unit
         /\ InUnits(n) > u => u * Unit <= n
         /\ InUnits(u * Unit) = u
  BY SMTT(20), SizesAssumption DEF InUnits

-----------------------------------------------------------------------------
(***************************************************************************)
(* What is reserved.                                                       *)
(***************************************************************************)
\* The sizes are those of some of the pools, and what they sum up to is there.
Reserved(s) ==
  /\ DOMAIN s \subseteq Pool /\ IsFiniteSet(DOMAIN s)
  /\ s \in [DOMAIN s -> Nat]
  /\ Total(s) <= CacheSize

\* Nothing is reserved at first.
LEMMA ReservedNone ==
  Reserved(NoPools)
  <1>1. DOMAIN NoPools = {} /\ NoPools \in [{} -> Nat]
    BY DEF NoPools
  <1>2. Total(NoPools) = 0
    BY <1>1, TotalIsSum, SumEmpty
  <1> QED
    BY <1>1, <1>2, FS_EmptySet, SizesAssumption DEF Reserved

\* A pool is in what is reserved, and resizing it changes its part alone.
LEMMA ReservedOne ==
  ASSUME NEW s, Reserved(s), NEW p \in DOMAIN s, NEW n \in Nat
  PROVE  \E rest \in Nat : /\ Total(s) = s[p] + rest
                           /\ Total([s EXCEPT ![p] = n]) = n + rest
  <1> DEFINE D == DOMAIN s
             t == [s EXCEPT ![p] = n]
             rest == Sum(s, D \ {p})
  <1>1. IsFiniteSet(D) /\ IsFiniteSet(D \ {p})
    BY FS_Subset DEF Reserved
  <1>2. \A q \in D : s[q] \in Nat
    BY DEF Reserved
  <1>3. DOMAIN t = D /\ \A q \in D : t[q] = IF q = p THEN n ELSE s[q]
    OBVIOUS
  <1> HIDE DEF t
  <1>4. \A q \in D : t[q] \in Nat
    BY <1>2, <1>3
  <1>5. Sum(s, D) = s[p] + rest /\ rest \in Nat
    BY <1>1, <1>2, SumElement
  <1>6. Sum(t, D) = t[p] + Sum(t, D \ {p})
    BY <1>1, <1>4, SumElement
  <1>7. Sum(t, D \ {p}) = rest
    BY <1>1, <1>3, SumSame
  <1>8. Total(s) = Sum(s, D) /\ Total(t) = Sum(t, D)
    BY <1>3, TotalIsSum
  <1> HIDE DEF rest
  <1>9. Total(t) = n + rest /\ Total(s) = s[p] + rest
    BY <1>3, <1>5, <1>6, <1>7, <1>8
  <1> QED
    BY <1>5, <1>9 DEF t

\* No pool has more than there is.
LEMMA TotalInNat ==
  ASSUME NEW s, Reserved(s)
  PROVE  Total(s) \in Nat /\ \A p \in DOMAIN s : s[p] \in 0 .. CacheSize
  <1>1. IsFiniteSet(DOMAIN s) /\ \A q \in DOMAIN s : s[q] \in Nat
    BY DEF Reserved
  <1>2. Total(s) \in Nat
    BY <1>1, SumElement, TotalIsSum
  <1>3. ASSUME NEW p \in DOMAIN s PROVE s[p] \in 0 .. CacheSize
    <2>1. PICK rest \in Nat :
            Total(s) = s[p] + rest /\ Total([s EXCEPT ![p] = 0]) = 0 + rest
      BY ReservedOne
    <2>2. s[p] \in Nat /\ Total(s) <= CacheSize
      BY <1>1 DEF Reserved
    <2> QED
      BY <2>1, <2>2, SizesAssumption
  <1> QED
    BY <1>2, <1>3

\* A pool that is resized is given no more than there is (shrinkPool, growPool).
LEMMA ReservedResized ==
  ASSUME Reserved(size), NEW p \in DOMAIN size, NEW n \in Nat
  PROVE  Reserved(Resized(p, n))
  <1> DEFINE t == [size EXCEPT ![p] = n]
  <1>1. CASE n > size[p] /\ n - size[p] > Unreserved
    BY <1>1 DEF Resized
  <1>2. CASE ~(n > size[p] /\ n - size[p] > Unreserved)
    <2>1. Resized(p, n) = t
      BY <1>2 DEF Resized
    <2>2. PICK rest \in Nat : Total(size) = size[p] + rest /\ Total(t) = n + rest
      BY ReservedOne
    <2>3. DOMAIN t = DOMAIN size /\ t \in [DOMAIN t -> Nat]
      BY DEF Reserved
    <2> HIDE DEF t
    <2>4. size[p] \in Nat /\ Total(size) <= CacheSize
      BY DEF Reserved
    <2>5. Total(t) <= CacheSize
      BY <1>2, <2>2, <2>4, SizesAssumption DEF Unreserved
    <2> QED
      BY <2>1, <2>3, <2>5 DEF Reserved
  <1> QED
    BY <1>1, <1>2

\* A new pool is given its size if there is enough left, and no other pool changes.
LEMMA ReservedAdded ==
  ASSUME Reserved(size), NEW p \in Pool, AddPool(p)
  PROVE  Reserved(size') /\ \A q \in DOMAIN size : q \in DOMAIN size' /\ size'[q] = size[q]
  <1> DEFINE D == DOMAIN size
  <1>1. CASE ~(PoolSize <= Unreserved)
    BY <1>1 DEF AddPool
  <1>2. CASE PoolSize <= Unreserved
    <2>1. /\ size' = [q \in D \cup {p} |-> IF q = p THEN PoolSize ELSE size[q]]
          /\ p \notin D
      BY <1>2 DEF AddPool
    <2>2. /\ DOMAIN size' = D \cup {p} /\ size'[p] = PoolSize
          /\ \A q \in D : size'[q] = size[q]
      BY <2>1
    <2>3. /\ IsFiniteSet(D \cup {p}) /\ IsFiniteSet(D) /\ (D \cup {p}) \ {p} = D
      BY <2>1, FS_AddElement DEF Reserved
    <2>4. \A q \in D \cup {p} : size'[q] \in Nat
      BY <2>2, SizesAssumption DEF Reserved
    <2>5. Sum(size', D \cup {p}) = size'[p] + Sum(size', (D \cup {p}) \ {p})
      BY <2>3, <2>4, SumElement
    <2>6. Sum(size', D) = Sum(size, D)
      BY <2>2, <2>3, SumSame
    <2>7. Total(size') = PoolSize + Total(size)
      BY <2>2, <2>3, <2>5, <2>6, TotalIsSum
    <2>8. Total(size') <= CacheSize
      BY <1>2, <2>7, TotalInNat, SizesAssumption DEF Unreserved
    <2>9. size' \in [DOMAIN size' -> Nat]
      BY <2>1, <2>2, <2>4
    <2> QED
      BY <2>2, <2>3, <2>8, <2>9 DEF Reserved
  <1> QED
    BY <1>1, <1>2

-----------------------------------------------------------------------------
(***************************************************************************)
(* What is wanted, and whether it fits.                                    *)
(***************************************************************************)
\* Wanted and Fits, of given sizes and a given configuration.
WantedOf(s, config, p) ==
  LET changed == {i \in DOMAIN config :
                    config[i].pool = p /\ config[i].units # InUnits(s[p])}
  IN IF changed = {} THEN s[p] ELSE Unit * config[CHOOSE i \in changed : TRUE].units

AllWanted(s, config)  == [p \in DOMAIN s |-> WantedOf(s, config, p)]
FitsIn(s, config)     == Total(AllWanted(s, config)) <= CacheSize

\* What Fits says, now and in the next state.
LEMMA FitsIs ==
  /\ Fits <=> FitsIn(size, listener.config)
  /\ Fits' <=> FitsIn(size', listener'.config)
  BY DEF Fits, Wanted, FitsIn, AllWanted, WantedOf

\* The entries of a configuration name different pools.
LEMMA EntryShape ==
  ASSUME NEW config \in Configs, NEW i \in DOMAIN config
  PROVE  /\ config[i].pool \in Pool /\ config[i].units \in Nat
         /\ \A j \in DOMAIN config : i # j => config[i].pool # config[j].pool
  <1>1. PICK n \in 1 .. Cardinality(Pool) : config \in [1 .. n -> Entry]
    BY DEF Configs
  <1>2. config[i] \in Entry
    BY <1>1
  <1>3. config[i].pool \in Pool /\ config[i].units \in Nat
    BY <1>2 DEF Entry
  <1> QED
    BY <1>3 DEF Configs

\* What is wanted for a pool: what its entry says, if that are not its units already.
LEMMA WantedIs ==
  ASSUME NEW config \in Configs, NEW s, NEW i \in DOMAIN config, NEW p, config[i].pool = p
  PROVE  /\ config[i].units # InUnits(s[p]) => WantedOf(s, config, p) = Unit * config[i].units
         /\ config[i].units = InUnits(s[p]) => WantedOf(s, config, p) = s[p]
  <1> DEFINE changed == {j \in DOMAIN config :
                           config[j].pool = p /\ config[j].units # InUnits(s[p])}
  <1>1. \A j \in changed : j = i
    BY EntryShape
  <1>2. CASE config[i].units # InUnits(s[p])
    <2>1. i \in changed
      BY <1>2
    <2>2. changed # {} /\ (CHOOSE j \in changed : TRUE) = i
      BY <1>1, <2>1
    <2> QED
      BY <1>2, <2>2 DEF WantedOf
  <1>3. CASE config[i].units = InUnits(s[p])
    <2>1. changed = {}
      BY <1>1, <1>3
    <2> QED
      BY <1>3, <2>1 DEF WantedOf
  <1> QED
    BY <1>2, <1>3

\* A pool without an entry keeps what it has.
LEMMA NoneWanted ==
  ASSUME NEW config \in Configs, NEW s, NEW p, p \notin PoolsOf(config)
  PROVE  WantedOf(s, config, p) = s[p]
  <1>1. {j \in DOMAIN config :
           config[j].pool = p /\ config[j].units # InUnits(s[p])} = {}
    BY DEF PoolsOf
  <1> QED
    BY <1>1 DEF WantedOf

\* Resizing a pool to what its entry says changes nothing of what is wanted.
LEMMA WantedKept ==
  ASSUME NEW config \in Configs, NEW i \in DOMAIN config, NEW s, Reserved(s),
         NEW p \in DOMAIN s, config[i].pool = p, InUnits(s[p]) # config[i].units
  PROVE  FitsIn([s EXCEPT ![p] = config[i].units * Unit], config) <=> FitsIn(s, config)
  <1> DEFINE n == config[i].units * Unit
             t == [s EXCEPT ![p] = n]
  <1>1. DOMAIN t = DOMAIN s /\ \A q \in DOMAIN s : t[q] = IF q = p THEN n ELSE s[q]
    OBVIOUS
  <1>2. config[i].units \in Nat /\ Unit \in Nat
    BY EntryShape, SizesAssumption
  <1>3. n = Unit * config[i].units
    BY <1>2
  <1>4. InUnits(n) = config[i].units
    BY <1>2, Units
  <1> HIDE DEF n, t
  <1>5. ASSUME NEW q \in DOMAIN s
        PROVE  WantedOf(t, config, q) = WantedOf(s, config, q)
    <2>1. CASE q = p
      <3>1. WantedOf(t, config, q) = t[q]
        BY <1>1, <1>4, <2>1, WantedIs
      <3>2. WantedOf(s, config, q) = Unit * config[i].units
        BY <2>1, WantedIs
      <3> QED
        BY <1>1, <1>3, <2>1, <3>1, <3>2
    <2>2. CASE q # p
      <3>1. t[q] = s[q]
        BY <1>1, <2>2
      <3>2. CASE q \in PoolsOf(config)
        <4>1. PICK j \in DOMAIN config : config[j].pool = q
          BY <3>2 DEF PoolsOf
        <4> QED
          BY <3>1, <4>1, WantedIs
      <3>3. CASE q \notin PoolsOf(config)
        BY <3>1, <3>3, NoneWanted
      <3> QED
        BY <3>2, <3>3
    <2> QED
      BY <2>1, <2>2
  <1>6. AllWanted(t, config) = AllWanted(s, config)
    BY <1>1, <1>5 DEF AllWanted
  <1>7. FitsIn(t, config) <=> FitsIn(s, config)
    BY <1>6 DEF FitsIn
  <1> QED
    BY <1>7 DEF t, n

\* A number of grains is wanted for each pool.
LEMMA WantedInNat ==
  ASSUME NEW config \in Configs, NEW s, Reserved(s), NEW p \in DOMAIN s
  PROVE  WantedOf(s, config, p) \in Nat
  <1>1. s[p] \in Nat
    BY DEF Reserved
  <1>2. CASE p \in PoolsOf(config)
    <2>1. PICK j \in DOMAIN config : config[j].pool = p
      BY <1>2 DEF PoolsOf
    <2>2. Unit * config[j].units \in Nat
      BY EntryShape, SizesAssumption
    <2> QED
      BY <1>1, <2>1, <2>2, WantedIs
  <1>3. CASE p \notin PoolsOf(config)
    BY <1>1, <1>3, NoneWanted
  <1> QED
    BY <1>2, <1>3

\* If all that is wanted fits and no pool is above what its entry says, there is
\* enough left to grow each pool.
LEMMA GrowSucceeds ==
  ASSUME Reserved(size), NEW config \in Configs, FitsIn(size, config),
         \A j \in DOMAIN config : config[j].pool \in DOMAIN size
                                    => InUnits(size[config[j].pool]) <= config[j].units,
         NEW i \in DOMAIN config, NEW p \in DOMAIN size, config[i].pool = p,
         InUnits(size[p]) < config[i].units
  PROVE  Resized(p, config[i].units * Unit) = [size EXCEPT ![p] = config[i].units * Unit]
  <1> DEFINE D == DOMAIN size
             n == config[i].units * Unit
             t == [size EXCEPT ![p] = n]
             w == AllWanted(size, config)
  <1>1. config[i].units \in Nat /\ Unit \in Nat /\ n \in Nat /\ n = Unit * config[i].units
    BY EntryShape, SizesAssumption
  <1>2. \A q \in D : size[q] \in Nat
    BY DEF Reserved
  <1>3. DOMAIN t = D /\ \A q \in D : t[q] = IF q = p THEN n ELSE size[q]
    OBVIOUS
  <1>4. DOMAIN w = D /\ \A q \in D : w[q] = WantedOf(size, config, q)
    BY DEF AllWanted
  <1>5. PICK rest \in Nat : Total(size) = size[p] + rest /\ Total(t) = n + rest
    BY <1>1, ReservedOne
  <1> HIDE DEF t, w, n
  <1>6. ASSUME NEW q \in D PROVE t[q] \in Nat /\ w[q] \in Nat /\ t[q] <= w[q]
    <2>1. w[q] \in Nat
      BY <1>4, WantedInNat
    <2>2. t[q] \in Nat
      BY <1>1, <1>2, <1>3
    <2>3. CASE q = p
      <3>1. WantedOf(size, config, q) = n
        <4>1. config[i].units # InUnits(size[p])
          BY <1>1, <1>2, Units
        <4> QED
          BY <1>1, <2>3, <4>1, WantedIs
      <3> QED
        BY <1>3, <1>4, <2>1, <2>3, <3>1
    <2>4. CASE q # p /\ q \in PoolsOf(config)
      <3>1. PICK j \in DOMAIN config : config[j].pool = q
        BY <2>4 DEF PoolsOf
      <3>2. InUnits(size[q]) <= config[j].units /\ config[j].units \in Nat /\ InUnits(size[q]) \in Nat
        BY <1>2, <3>1, EntryShape, Units
      <3>3. CASE InUnits(size[q]) = config[j].units
        <4>1. WantedOf(size, config, q) = size[q]
          BY <3>1, <3>3, WantedIs
        <4> QED
          BY <1>2, <1>3, <1>4, <2>1, <2>2, <2>4, <4>1
      <3>4. CASE InUnits(size[q]) < config[j].units
        <4>1. WantedOf(size, config, q) = Unit * config[j].units
          BY <3>1, <3>2, <3>4, WantedIs
        <4>2. size[q] < config[j].units * Unit
          BY <1>2, <3>2, <3>4, Units
        <4>3. config[j].units * Unit = Unit * config[j].units
          BY <1>1, <3>2
        <4>4. size[q] < w[q] /\ t[q] = size[q]
          BY <1>3, <1>4, <2>4, <4>1, <4>2, <4>3
        <4> QED
          BY <2>1, <2>2, <4>4
      <3> QED
        BY <3>2, <3>3, <3>4
    <2>5. CASE q # p /\ q \notin PoolsOf(config)
      <3>1. WantedOf(size, config, q) = size[q]
        BY <2>5, NoneWanted
      <3> QED
        BY <1>2, <1>3, <1>4, <2>1, <2>2, <2>5, <3>1
    <2> QED
      BY <2>3, <2>4, <2>5
  <1>7. IsFiniteSet(D)
    BY DEF Reserved
  <1>8. Sum(t, D) <= Sum(w, D)
    BY <1>6, <1>7, SumOrder
  <1>9. Total(t) <= Total(w)
    BY <1>3, <1>4, <1>8, TotalIsSum
  <1>10. Total(w) <= CacheSize
    BY DEF FitsIn, w
  <1>11. Total(w) \in Nat
    BY <1>4, <1>6, <1>7, SumElement, TotalIsSum
  <1>12. n + rest <= CacheSize
    BY <1>1, <1>5, <1>9, <1>10, <1>11, SizesAssumption
  <1>13. size[p] \in Nat
    BY <1>2
  <1>14. ~(n > size[p] /\ n - size[p] > Unreserved)
    BY <1>1, <1>5, <1>12, <1>13, SizesAssumption DEF Unreserved
  <1>15. Resized(p, n) = t
    BY <1>14 DEF Resized, t
  <1> QED
    BY <1>15 DEF t, n

\* What a new partition of the sizes read asks for fits into the memory: it has as
\* many units in all as were read, and what a pool has beyond its units is left.
LEMMA PartitionFits ==
  ASSUME NEW s, Reserved(s), NEW read, DOMAIN read \subseteq DOMAIN s,
         \A p \in DOMAIN read : read[p] = InUnits(s[p]),
         NEW config \in Configs, PoolsOf(config) = DOMAIN read,
         Total([i \in DOMAIN config |-> config[i].units]) = Total(read)
  PROVE  FitsIn(s, config)
  <1> DEFINE S == DOMAIN s
             E == DOMAIN read
             I == DOMAIN config
             f == [i \in I |-> config[i].units]
             h == [i \in I |-> config[i].pool]
             u == [p \in S |-> IF p \in E
                                 THEN config[CHOOSE i \in I : config[i].pool = p].units ELSE 0]
             q == [p \in S |-> IF p \in E THEN InUnits(s[p]) ELSE 0]
             r == [p \in S |-> s[p] - Unit * q[p]]
             v == [p \in S |-> Unit * u[p] + r[p]]
             w == AllWanted(s, config)
  <1>1. /\ IsFiniteSet(S) /\ E \in SUBSET S /\ IsFiniteSet(E) /\ Unit \in Nat
        /\ \A p \in S : s[p] \in Nat
    BY FS_Subset, SizesAssumption DEF Reserved
  <1>2. IsFiniteSet(I)
    <2>1. Len(config) \in Nat /\ I = 1 .. Len(config)
      BY ConfigShape
    <2> QED
      BY <2>1, FS_Interval
  <1>3. \A i \in I : h[i] \in E /\ f[i] \in Nat /\ u[h[i]] = f[i]
    <2> SUFFICES ASSUME NEW i \in I PROVE h[i] \in E /\ f[i] \in Nat /\ u[h[i]] = f[i]
      OBVIOUS
    <2>1. config[i].pool \in E /\ config[i].pool \in S /\ config[i].units \in Nat
      BY <1>1, EntryShape DEF PoolsOf
    <2>2. (CHOOSE j \in I : config[j].pool = config[i].pool) = i
      BY EntryShape
    <2>3. u[config[i].pool] = config[i].units
      BY <2>1, <2>2
    <2>4. h[i] = config[i].pool /\ f[i] = config[i].units
      OBVIOUS
    <2> HIDE DEF u, h, f
    <2> QED
      BY <2>1, <2>3, <2>4
  <1>4. \A i, j \in I : h[i] = h[j] => i = j
    BY EntryShape
  <1>5. {h[i] : i \in I} = E
    BY DEF PoolsOf
  <1>6. ASSUME NEW p \in E PROVE \E i \in I : h[i] = p
    BY <1>6 DEF PoolsOf
  <1>7. ASSUME NEW p \in S
        PROVE  /\ u[p] \in Nat /\ q[p] \in Nat /\ r[p] \in Nat /\ s[p] \in Nat
               /\ s[p] = Unit * q[p] + r[p]
               /\ v[p] \in Nat /\ v[p] = Unit * u[p] + r[p]
    <2>1. u[p] \in Nat
      <3>1. CASE p \in E
        <4>1. PICK i \in I : h[i] = p
          BY <1>6, <3>1
        <4>2. u[h[i]] = f[i] /\ f[i] \in Nat
          BY <1>3
        <4> HIDE DEF u, h, f
        <4> QED
          BY <4>1, <4>2
      <3>2. CASE p \notin E
        BY <3>2
      <3> QED
        BY <3>1, <3>2
    <2>2. q[p] \in Nat /\ Unit * q[p] <= s[p] /\ s[p] \in Nat
      <3>1. CASE p \in E
        <4>1. q[p] = InUnits(s[p])
          BY <3>1
        <4> QED
          BY <1>1, <4>1, Units
      <3>2. CASE p \notin E
        <4>1. q[p] = 0
          BY <3>2
        <4> QED
          BY <1>1, <4>1
      <3> QED
        BY <3>1, <3>2
    <2> HIDE DEF q, u
    <2>3. r[p] = s[p] - Unit * q[p] /\ v[p] = Unit * u[p] + r[p]
      OBVIOUS
    <2> HIDE DEF r, v
    <2>4. Unit * q[p] \in Nat /\ Unit * u[p] \in Nat
      BY <1>1, <2>1, <2>2
    <2>5. r[p] \in Nat /\ s[p] = Unit * q[p] + r[p]
      BY <2>2, <2>3, <2>4
    <2> QED
      BY <2>1, <2>2, <2>3, <2>4, <2>5
  <1>8. /\ \A p \in E : q[p] = read[p] /\ q[p] = InUnits(s[p])
        /\ \A p \in S \ E : q[p] = 0 /\ u[p] = 0
    BY <1>1
  <1>9. DOMAIN f = I /\ DOMAIN w = S /\ \A p \in S : w[p] = WantedOf(s, config, p)
    BY DEF AllWanted
  <1>10. \A i \in I : h[i] = config[i].pool /\ f[i] = config[i].units
    OBVIOUS
  <1>11. Total(f) = Total(read)
    OBVIOUS
  <1> HIDE DEF f, h, u, q, r, v, w
  <1>12. ASSUME NEW p \in S PROVE w[p] \in Nat /\ w[p] <= v[p]
    <2>1. w[p] \in Nat
      BY <1>9, WantedInNat
    <2>2. CASE p \in E
      <3>1. PICK i \in I : h[i] = p
        BY <1>6, <2>2
      <3>2. config[i].pool = p /\ u[p] = config[i].units
        BY <1>3, <1>10, <3>1
      <3>3. CASE config[i].units = InUnits(s[p])
        <4>1. w[p] = s[p]
          BY <1>9, <3>2, <3>3, WantedIs
        <4>2. u[p] = q[p]
          BY <1>8, <2>2, <3>2, <3>3
        <4>3. v[p] = s[p]
          BY <1>7, <4>2
        <4> QED
          BY <1>7, <4>1, <4>3
      <3>4. CASE config[i].units # InUnits(s[p])
        <4>1. w[p] = Unit * u[p]
          BY <1>9, <3>2, <3>4, WantedIs
        <4>2. v[p] = w[p] + r[p] /\ r[p] \in Nat
          BY <1>7, <4>1
        <4> QED
          BY <2>1, <4>2
      <3> QED
        BY <3>3, <3>4
    <2>3. CASE p \notin E
      <3>1. w[p] = s[p]
        BY <1>9, <2>3, NoneWanted
      <3>2. u[p] = q[p]
        BY <1>8, <2>3
      <3>3. v[p] = s[p]
        BY <1>7, <3>2
      <3> QED
        BY <1>7, <3>1, <3>3
    <2> QED
      BY <2>2, <2>3
  <1>13. Sum(s, S) = Unit * Sum(q, S) + Sum(r, S)
    BY <1>1, <1>7, SumSplit
  <1>14. Sum(v, S) = Unit * Sum(u, S) + Sum(r, S)
    BY <1>1, <1>7, SumSplit
  <1>15. Sum(q, S) = Sum(read, E)
    <2>1. Sum(q, S) = Sum(q, E)
      BY <1>1, <1>7, <1>8, SumSupport
    <2>2. Sum(q, E) = Sum(read, E)
      BY <1>1, <1>8, SumSame
    <2> QED
      BY <2>1, <2>2
  <1>16. Sum(u, S) = Sum(f, I)
    <2>1. Sum(u, S) = Sum(u, E)
      BY <1>1, <1>7, <1>8, SumSupport
    <2>2. Sum(f, I) = Sum(u, {h[i] : i \in I})
      BY <1>1, <1>2, <1>3, <1>4, SumRenamed
    <2> QED
      BY <1>5, <2>1, <2>2
  <1>17. Sum(f, I) = Sum(read, E)
    BY <1>9, <1>11, TotalIsSum
  <1>18. Sum(v, S) = Sum(s, S)
    BY <1>13, <1>14, <1>15, <1>16, <1>17
  <1>19. Sum(w, S) <= Sum(v, S)
    BY <1>1, <1>7, <1>12, SumOrder
  <1>20. Total(w) <= Total(s)
    BY <1>9, <1>18, <1>19, TotalIsSum
  <1>21. Total(w) \in Nat
    BY <1>1, <1>9, <1>12, SumElement, TotalIsSum
  <1>22. Total(s) \in Nat /\ Total(s) <= CacheSize
    BY TotalInNat DEF Reserved
  <1>23. Total(w) <= CacheSize
    BY <1>20, <1>21, <1>22, SizesAssumption
  <1> QED
    BY <1>23 DEF FitsIn, w

-----------------------------------------------------------------------------
(***************************************************************************)
(* The loops.                                                              *)
(***************************************************************************)
UnitsOf(j)   == listener.config[j].units
UnitsHeld(j) == InUnits(size[listener.config[j].pool])

\* While the listener works on a configuration, no pool it has looked at is above its
\* entry, in the second loop none at all; if all that is wanted fits, each pool the
\* second loop has looked at has its units; and a partition fits.
Progress ==
  listener # Idle =>
    /\ \A j \in DOMAIN listener.config :
         j < listener.i \/ listener.at = "grow" => UnitsHeld(j) <= UnitsOf(j)
    /\ listener.at = "grow" /\ Fits =>
         \A j \in DOMAIN listener.config : j < listener.i => UnitsHeld(j) = UnitsOf(j)
    /\ listener.read => Fits

\* What the scheduler has read is still so when it sends a partition: only a new
\* configuration resizes pools, and it ends what was read.
StillSo ==
  /\ \A p \in DOMAIN stats : stats[p] = InUnits(size[p])
  /\ listener # Idle => DOMAIN stats = {}

Sizes ==
  /\ Reserved(size)
  /\ up \in BOOLEAN /\ sent \in 0 .. MaxConfigs
  /\ StillSo
  /\ Progress

-----------------------------------------------------------------------------
\* One turn of a loop.  The pool it looks at is not above its entry afterwards and,
\* if all that is wanted fits, has its units after the second loop's; the other
\* pools are left alone, and what is wanted stays.
LEMMA TurnResizes ==
  ASSUME Reserved(size), Progress, KnownPools, Shrink \/ Grow
  PROVE  /\ Reserved(size') /\ DOMAIN size' = DOMAIN size /\ Target.pool \in DOMAIN size
         /\ \A q \in DOMAIN size : q # Target.pool => size'[q] = size[q]
         /\ InUnits(size'[Target.pool]) <= Target.units
         /\ listener.at = "grow" /\ Fits => InUnits(size'[Target.pool]) = Target.units
         /\ FitsIn(size', listener.config) <=> FitsIn(size, listener.config)
  <1> DEFINE p == Target.pool
             u == Target.units
             n == u * Unit
             t == [size EXCEPT ![p] = n]
             i == listener.i
             config == listener.config
  <1>1. /\ listener.at \in {"shrink", "grow"} /\ p \in DOMAIN size
        /\ config \in Configs /\ i \in DOMAIN config
        /\ config[i].pool = p /\ config[i].units = u /\ listener # Idle
    BY DEF Shrink, Grow, Turn, KnownPools, Working, Idle, Target
  <1>2. u \in Nat /\ Unit \in Nat /\ n \in Nat
    BY <1>1, EntryShape, SizesAssumption
  <1>3. size[p] \in Nat /\ Curr = InUnits(size[p]) /\ InUnits(size[p]) \in Nat
    BY <1>1, Units DEF Curr, Reserved
  <1>4. /\ DOMAIN t = DOMAIN size /\ \A q \in DOMAIN size : q # p => t[q] = size[q]
        /\ t[p] = n /\ InUnits(n) = u
    BY <1>1, <1>2, Units
  <1>5. Reserved(Resized(p, n))
    BY <1>1, <1>2, ReservedResized
  <1>6. Curr # u => (FitsIn(t, config) <=> FitsIn(size, config))
    BY <1>1, <1>3, WantedKept
  <1>7. CASE Shrink
    <2>1. listener.at = "shrink" /\ size' = IF Curr > u THEN Resized(p, n) ELSE size
      BY <1>7 DEF Shrink, Turn
    <2>2. CASE Curr > u
      <3>1. n <= size[p]
        BY <1>2, <1>3, <2>2, Units
      <3>2. Resized(p, n) = t
        BY <1>2, <1>3, <3>1 DEF Resized
      <3> QED
        BY <1>1, <1>2, <1>3, <1>4, <1>5, <1>6, <2>1, <2>2, <3>2
    <2>3. CASE ~(Curr > u)
      <3>1. size' = size /\ InUnits(size[p]) <= u
        BY <1>2, <1>3, <2>1, <2>3
      <3> QED
        BY <1>1, <2>1, <3>1
    <2> QED
      BY <2>2, <2>3
  <1>8. CASE Grow
    <2>1. listener.at = "grow" /\ size' = IF Curr < u THEN Resized(p, n) ELSE size
      BY <1>8 DEF Grow, Turn
    <2>2. \A j \in DOMAIN config : InUnits(size[config[j].pool]) <= config[j].units
      BY <1>1, <2>1 DEF Progress, UnitsHeld, UnitsOf
    <2>3. InUnits(size[p]) <= u
      BY <1>1, <2>2
    <2>4. CASE Curr < u
      <3>1. Resized(p, n) = size \/ Resized(p, n) = t
        BY DEF Resized
      <3>2. FitsIn(size, config) => Resized(p, n) = t
        BY <1>1, <1>3, <2>2, <2>4, GrowSucceeds
      <3>3. Fits <=> FitsIn(size, config)
        BY FitsIs
      <3>4. Fits => InUnits(size'[p]) = u
        BY <1>4, <2>1, <2>4, <3>2, <3>3
      <3>5. InUnits(size'[p]) <= u
        <4>1. size' = size \/ InUnits(size'[p]) = u
          BY <1>4, <2>1, <2>4, <3>1
        <4> QED
          BY <1>2, <2>3, <4>1
      <3>6. FitsIn(size', config) <=> FitsIn(size, config)
        BY <1>2, <1>3, <1>6, <2>1, <2>4, <3>1
      <3>7. DOMAIN size' = DOMAIN size /\ \A q \in DOMAIN size : q # p => size'[q] = size[q]
        BY <1>4, <2>1, <2>4, <3>1
      <3> QED
        BY <1>1, <1>5, <2>1, <2>4, <3>4, <3>5, <3>6, <3>7
    <2>5. CASE ~(Curr < u)
      <3>1. size' = size /\ InUnits(size[p]) = u
        BY <1>2, <1>3, <2>1, <2>3, <2>5
      <3> QED
        BY <1>1, <2>3, <3>1
    <2> QED
      BY <2>4, <2>5
  <1> QED
    BY <1>7, <1>8

\* The entries the loops have been at name other pools than the present one.
LEMMA OthersKept ==
  ASSUME KnownPools, Reserved(size), Progress, Shrink \/ Grow,
         NEW j \in DOMAIN listener.config, j < listener.i \/ listener.at = "grow",
         j # listener.i
  PROVE  size'[listener.config[j].pool] = size[listener.config[j].pool]
  <1>1. /\ listener # Idle /\ listener.config \in Configs
        /\ listener.i \in DOMAIN listener.config
    BY DEF Shrink, Grow, Turn, KnownPools, Working, Idle
  <1>2. listener.config[j].pool \in DOMAIN size
    BY <1>1 DEF KnownPools, Exists
  <1>3. listener.config[j].pool # Target.pool
    BY <1>1, EntryShape DEF Target
  <1> QED
    BY <1>2, <1>3, TurnResizes

\* A turn of a loop keeps the invariant.
LEMMA TurnProgress ==
  ASSUME KnownPools, Sizes, Shrink \/ Grow
  PROVE  Sizes'
  <1> DEFINE config == listener.config
             i == listener.i
  <1>1. /\ UNCHANGED <<up, stats, sent>> /\ listener.at \in {"shrink", "grow"}
        /\ listener # Idle /\ Working
        /\ listener' = IF ~Last THEN [listener EXCEPT !.i = @ + 1]
                       ELSE IF listener.at = "shrink" THEN Growing ELSE Idle
    BY DEF Shrink, Grow, Turn, Idle, KnownPools
  <1>2. /\ Reserved(size') /\ InUnits(size'[Target.pool]) <= Target.units
        /\ FitsIn(size', config) <=> FitsIn(size, config)
        /\ listener.at = "grow" /\ Fits => InUnits(size'[Target.pool]) = Target.units
    BY TurnResizes DEF Sizes
  <1>3. DOMAIN stats = {} /\ StillSo'
    BY <1>1 DEF Sizes, StillSo
  <1>4. config[i].pool = Target.pool /\ config[i].units = Target.units
    BY DEF Target
  <1>5. ASSUME NEW j \in DOMAIN config, j < i \/ j = i \/ listener.at = "grow"
        PROVE  InUnits(size'[config[j].pool]) <= config[j].units
    <2>1. CASE j = i
      BY <1>2, <1>4, <2>1
    <2>2. CASE j # i
      <3>1. InUnits(size[config[j].pool]) <= config[j].units
        BY <1>1, <1>5, <2>2 DEF Sizes, Progress, UnitsHeld, UnitsOf
      <3> QED
        BY <1>5, <2>2, <3>1, OthersKept DEF Sizes
    <2> QED
      BY <2>1, <2>2
  <1>6. ASSUME NEW j \in DOMAIN config, j < i \/ j = i, listener.at = "grow", Fits
        PROVE  InUnits(size'[config[j].pool]) = config[j].units
    <2>1. CASE j = i
      BY <1>2, <1>4, <1>6, <2>1
    <2>2. CASE j # i
      <3>1. InUnits(size[config[j].pool]) = config[j].units
        BY <1>1, <1>6, <2>2 DEF Sizes, Progress, UnitsHeld, UnitsOf
      <3> QED
        BY <1>6, <2>2, <3>1, OthersKept DEF Sizes
    <2> QED
      BY <2>1, <2>2
  <1>7. listener.read => Fits
    BY <1>1 DEF Sizes, Progress
  <1>8. i \in Nat /\ i \in DOMAIN config /\ DOMAIN config = 1 .. Len(config) /\ Len(config) \in Nat
    BY <1>1, ConfigShape DEF Working
  <1>9. listener'.config = config => (Fits' <=> Fits)
    BY <1>2, FitsIs
  <1>10. CASE ~Last
    <2>1. /\ listener'.config = config /\ listener'.i = i + 1 /\ listener'.at = listener.at
          /\ listener'.read = listener.read
      BY <1>1, <1>10 DEF Working
    <2>2. \A j \in DOMAIN config : j < i + 1 => j < i \/ j = i
      BY <1>8
    <2>3. Progress'
      BY <1>5, <1>6, <1>7, <1>9, <2>1, <2>2 DEF Progress, UnitsHeld, UnitsOf
    <2> QED
      BY <1>1, <1>2, <1>3, <2>3 DEF Sizes
  <1>11. CASE Last /\ listener.at = "shrink"
    <2>1. /\ listener'.config = config /\ listener'.i = 1 /\ listener'.at = "grow"
          /\ listener'.read = listener.read
      BY <1>1, <1>11 DEF Growing, Working
    <2>2. \A j \in DOMAIN config : (j < i \/ j = i) /\ ~(j < 1)
      BY <1>8, <1>11 DEF Last
    <2>3. Progress'
      BY <1>5, <1>7, <1>9, <2>1, <2>2 DEF Progress, UnitsHeld, UnitsOf
    <2> QED
      BY <1>1, <1>2, <1>3, <2>3 DEF Sizes
  <1>12. CASE Last /\ listener.at # "shrink"
    <2>1. listener' = Idle
      BY <1>1, <1>12
    <2> QED
      BY <1>1, <1>2, <1>3, <2>1 DEF Sizes, Progress
  <1> QED
    BY <1>10, <1>11, <1>12

\* So does a new configuration.
LEMMA StartSizes ==
  ASSUME Sizes, NEW config \in Configs, NEW read \in BOOLEAN, Start(config, read),
         read => FitsIn(size, config)
  PROVE  Sizes'
  <1>1. /\ UNCHANGED <<size, up>> /\ stats' = NoPools
        /\ listener' = [at |-> "shrink", config |-> config, i |-> 1, read |-> read]
        /\ sent' = sent + 1 /\ sent < MaxConfigs
    BY DEF Start
  <1>2. sent' \in 0 .. MaxConfigs
    BY <1>1, SizesAssumption DEF Sizes
  <1>3. DOMAIN stats' = {}
    BY <1>1 DEF NoPools
  <1>4. \A j \in DOMAIN config : ~(j < 1)
    BY ConfigShape
  <1>5. read => Fits'
    BY <1>1, FitsIs
  <1>6. Progress'
    BY <1>1, <1>4, <1>5 DEF Progress
  <1> QED
    BY <1>1, <1>2, <1>3, <1>6 DEF Sizes, StillSo

\* Every step does, given which pools are known to exist.
LEMMA SizesStep ==
  KnownPools /\ Sizes /\ [Next]_vars => Sizes'
  <1> SUFFICES ASSUME KnownPools, Sizes, [Next]_vars PROVE Sizes'
    OBVIOUS
  <1>1. ASSUME NEW p \in Pool, AddPool(p) PROVE Sizes'
    <2>1. listener = Idle /\ UNCHANGED <<listener, stats, sent>> /\ up' \in BOOLEAN
      BY <1>1 DEF AddPool, Accepting, Sizes
    <2>2. Reserved(size') /\ \A q \in DOMAIN size : size'[q] = size[q]
      BY <1>1, ReservedAdded DEF Sizes
    <2>3. StillSo'
      BY <2>1, <2>2 DEF KnownPools, StillSo, Sizes
    <2> QED
      BY <2>1, <2>2, <2>3 DEF Sizes, Progress
  <1>2. CASE ReadStats
    <2>1. listener = Idle /\ UNCHANGED <<size, up, listener, sent>> /\ stats' = Stats
      BY <1>2 DEF ReadStats, Accepting
    <2>2. StillSo'
      BY <2>1 DEF StillSo, Stats
    <2> QED
      BY <2>1, <2>2 DEF Sizes, Progress
  <1>3. ASSUME NEW config \in Configs, SendPartition(config) PROVE Sizes'
    <2>1. Start(config, TRUE)
      BY <1>3 DEF SendPartition
    <2>2. FitsIn(size, config)
      BY <1>3, PartitionFits DEF SendPartition, KnownPools, Sizes, StillSo
    <2> QED
      BY <2>1, <2>2, StartSizes
  <1>4. ASSUME NEW config \in Configs, SendAllocation(config) PROVE Sizes'
    BY <1>4, StartSizes DEF SendAllocation
  <1>5. CASE Shrink \/ Grow
    BY <1>5, TurnProgress
  <1>6. CASE UnknownPool
    <2>1. UNCHANGED <<size, listener, stats, sent>> /\ up' = FALSE
      BY <1>6 DEF UnknownPool
    <2>2. Fits' <=> Fits
      BY <2>1, FitsIs
    <2> QED
      BY <2>1, <2>2 DEF Sizes, StillSo, Progress, UnitsHeld, UnitsOf
  <1>7. CASE UNCHANGED vars
    <2>1. UNCHANGED <<size, up, listener, stats, sent>>
      BY <1>7 DEF vars
    <2>2. Fits' <=> Fits
      BY <2>1, FitsIs
    <2> QED
      BY <2>1, <2>2 DEF Sizes, StillSo, Progress, UnitsHeld, UnitsOf
  <1> QED
    BY <1>1, <1>2, <1>3, <1>4, <1>5, <1>6, <1>7 DEF Next

\* At any time the sizes of the pools sum up to no more than the memory, and the two
\* loops of executeNewConfig are as far as they say (server.cpp:73-86).
THEOREM SizesInvariant == Spec => []Sizes
  <1>1. Init => Sizes
    <2> SUFFICES ASSUME Init PROVE Sizes
      OBVIOUS
    <2>1. Reserved(size)
      BY ReservedNone DEF Init
    <2>2. StillSo /\ Progress
      BY DEF Init, StillSo, Progress, NoPools
    <2>3. up \in BOOLEAN /\ sent \in 0 .. MaxConfigs
      BY SizesAssumption DEF Init
    <2> QED
      BY <2>1, <2>2, <2>3 DEF Sizes
  <1> QED
    BY <1>1, SizesStep, Known, PTL DEF Spec

\* The sizes, what the listener works on and what the scheduler holds are well-formed,
\* and no more memory is reserved than there is (addpool_, resizePool).
THEOREM TypeCorrect == Spec => []TypeOK
  <1>1. KnownPools /\ Sizes => TypeOK
    <2> SUFFICES ASSUME KnownPools, Sizes PROVE TypeOK
      OBVIOUS
    <2>1. /\ DOMAIN size \subseteq Pool /\ Total(size) <= CacheSize
          /\ \A p \in DOMAIN size : size[p] \in 0 .. CacheSize
      BY TotalInNat DEF Sizes, Reserved
    <2>2. DOMAIN stats \subseteq Pool
      BY <2>1 DEF KnownPools
    <2>3. listener = Idle \/ /\ listener.at \in {"shrink", "grow"}
                             /\ listener.config \in Configs
                             /\ listener.i \in DOMAIN listener.config
                             /\ listener.read \in BOOLEAN
      BY DEF KnownPools, Working
    <2> QED
      BY <2>1, <2>2, <2>3 DEF TypeOK, Sizes
  <1> QED
    BY <1>1, Known, SizesInvariant, PTL

\* A request is done with the last turn of the second loop.
LEMMA DoneIsLastGrow ==
  ASSUME KnownPools, [Next]_vars, Done
  PROVE  Grow /\ Last
  <1>1. listener.at = "grow" /\ listener # Idle /\ listener' = Idle
    BY DEF Done, Idle
  <1>2. Working
    BY <1>1 DEF KnownPools
  <1>3. Grow
    <2>1. listener.at # "accept" /\ listener.at # "shrink" /\ listener' # listener
      BY <1>1
    <2>2. ~(\E p \in Pool : AddPool(p)) /\ ~ReadStats /\ ~UnknownPool /\ ~UNCHANGED vars
      BY <2>1 DEF AddPool, ReadStats, UnknownPool, vars
    <2>3. ~(\E config \in Configs : SendPartition(config) \/ SendAllocation(config))
      BY <1>1 DEF SendPartition, SendAllocation, Start, Accepting
    <2>4. ~Shrink
      BY <2>1 DEF Shrink, Turn
    <2> QED
      BY <2>2, <2>3, <2>4 DEF Next
  <1>4. Last
    <2>1. CASE ~Last
      <3>1. listener' = [listener EXCEPT !.i = @ + 1]
        BY <1>3, <2>1 DEF Grow, Turn
      <3>2. listener'.at = "grow"
        BY <1>1, <1>2, <3>1 DEF Working
      <3> QED
        BY <1>1, <3>2 DEF Idle
    <2> QED
      BY <2>1
  <1> QED
    BY <1>3, <1>4

\* It finds or gives every pool its units, if they fit.
LEMMA DoneReached ==
  ASSUME KnownPools, Sizes, [Next]_vars, Done, Fits
  PROVE  Reached
  <1>1. listener.at = "grow" /\ listener # Idle
    BY DEF Done, Idle
  <1>2. Grow /\ Last
    BY DoneIsLastGrow
  <1>3. listener.i \in Nat /\ Len(listener.config) \in Nat
        /\ DOMAIN listener.config = 1 .. Len(listener.config)
    BY <1>1, ConfigShape DEF KnownPools, Working
  <1>4. ASSUME NEW j \in DOMAIN listener.config
        PROVE  InUnits(size'[listener.config[j].pool]) = listener.config[j].units
    <2>1. CASE j = listener.i
      BY <1>1, <1>2, <2>1, TurnResizes DEF Sizes, Target
    <2>2. CASE j # listener.i
      <3>1. j < listener.i
        BY <1>2, <1>3, <2>2 DEF Last
      <3>2. InUnits(size[listener.config[j].pool]) = listener.config[j].units
        BY <1>1, <3>1 DEF Sizes, Progress, UnitsHeld, UnitsOf
      <3> QED
        BY <1>2, <2>2, <3>1, <3>2, OthersKept DEF Sizes
    <2> QED
      BY <2>1, <2>2
  <1> QED
    BY <1>4 DEF Reached, HasItsUnits

\* A configuration that fits into the memory is in force when its request is done,
\* whatever pools were created before it and although a grow that fails is ignored
\* (executeNewConfig).
THEOREM InForce == Spec => ConfigReached
  <1>1. KnownPools /\ Sizes /\ [Next]_vars => [Done /\ Fits => Reached]_vars
    BY DoneReached
  <1> QED
    BY <1>1, Known, SizesInvariant, PTL DEF Spec, ConfigReached

\* A new partition of what the scheduler read always fits and is in force when its
\* request is done (getCacheStats, executeNewConfig).
THEOREM PartitionInForce == Spec => PartitionReached
  <1>1. KnownPools /\ Sizes /\ [Next]_vars => [Done /\ listener.read => Reached]_vars
    <2> SUFFICES ASSUME KnownPools, Sizes, [Next]_vars, Done, listener.read
                 PROVE  Reached
      OBVIOUS
    <2>1. listener # Idle
      BY DEF Done, Idle
    <2>2. Fits
      BY <2>1 DEF Sizes, Progress
    <2> QED
      BY <2>2, DoneReached
  <1> QED
    BY <1>1, Known, SizesInvariant, PTL DEF Spec, PartitionReached

-----------------------------------------------------------------------------
(***************************************************************************)
(* What does not fit.                                                      *)
(***************************************************************************)
Settled(s, entry) == HasItsUnits(s, entry) \/ HasNoRoom(s, entry)

\* The pools the second loop has looked at have their units, or there is less memory
\* left than they lack.
Filled ==
  listener.at = "grow" =>
    \A j \in DOMAIN listener.config : j < listener.i => Settled(size, listener.config[j])

\* A turn of the second loop settles the pool it looks at, and frees no memory.
LEMMA GrowSettles ==
  ASSUME KnownPools, Sizes, Grow
  PROVE  Settled(size', Target) /\ Total(size) <= Total(size')
  <1> DEFINE p == Target.pool
             u == Target.units
             n == u * Unit
             t == [size EXCEPT ![p] = n]
  <1>1. /\ listener.at = "grow" /\ p \in DOMAIN size
        /\ listener.config \in Configs /\ listener.i \in DOMAIN listener.config
        /\ size' = IF Curr < u THEN Resized(p, n) ELSE size
    BY DEF Grow, Turn, KnownPools, Working, Idle
  <1>2. u \in Nat /\ Unit \in Nat /\ n \in Nat
    BY <1>1, EntryShape, SizesAssumption DEF Target
  <1>3. size[p] \in Nat /\ Curr = InUnits(size[p]) /\ InUnits(size[p]) \in Nat
    BY <1>1, Units DEF Curr, Reserved, Sizes
  <1>4. InUnits(size[p]) <= u
    BY <1>1 DEF Sizes, Progress, UnitsHeld, UnitsOf, Target, Idle
  <1>5. Total(size) \in Nat
    BY TotalInNat DEF Sizes
  <1>6. CASE ~(Curr < u)
    <2>1. size' = size /\ InUnits(size[p]) = u
      BY <1>1, <1>2, <1>3, <1>4, <1>6
    <2> QED
      BY <1>5, <2>1 DEF Settled, HasItsUnits
  <1>7. CASE Curr < u /\ n > size[p] /\ n - size[p] > Unreserved
    <2>1. size' = size
      BY <1>1, <1>7 DEF Resized
    <2>2. HasNoRoom(size', Target)
      BY <1>3, <1>7, <2>1 DEF HasNoRoom, Unreserved
    <2> QED
      BY <1>5, <2>1, <2>2 DEF Settled
  <1>8. CASE Curr < u /\ ~(n > size[p] /\ n - size[p] > Unreserved)
    <2>1. size' = t
      BY <1>1, <1>8 DEF Resized
    <2>2. PICK rest \in Nat : Total(size) = size[p] + rest /\ Total(t) = n + rest
      BY <1>1, <1>2, ReservedOne DEF Sizes
    <2>3. t[p] = n /\ InUnits(n) = u
      BY <1>1, <1>2, Units
    <2> HIDE DEF t
    <2>4. size[p] < n
      BY <1>2, <1>3, <1>8, Units
    <2>5. HasItsUnits(size', Target)
      BY <2>1, <2>3 DEF HasItsUnits
    <2>6. Total(size) <= Total(size')
      BY <1>2, <1>3, <2>1, <2>2, <2>4
    <2> QED
      BY <2>5, <2>6 DEF Settled
  <1> QED
    BY <1>6, <1>7, <1>8

\* After it all the pools looked at so far are settled.
LEMMA GrowFills ==
  ASSUME KnownPools, Sizes, Filled, Grow,
         NEW j \in DOMAIN listener.config, j < listener.i \/ j = listener.i
  PROVE  Settled(size', listener.config[j])
  <1> DEFINE entry == listener.config[j]
  <1>1. CASE j = listener.i
    BY <1>1, GrowSettles DEF Target
  <1>2. CASE j # listener.i
    <2>1. listener.at = "grow" /\ Settled(size, entry)
      BY <1>2 DEF Grow, Turn, Filled
    <2>2. size'[entry.pool] = size[entry.pool]
      BY <1>2, <2>1, OthersKept DEF Sizes
    <2>3. entry.pool \in DOMAIN size /\ listener.config \in Configs
      BY <2>1 DEF KnownPools, Working, Exists, Idle
    <2>4. entry.units * Unit \in Nat /\ size[entry.pool] \in Nat
      BY <2>3, EntryShape, SizesAssumption DEF Sizes, Reserved
    <2>5. Total(size) \in Nat /\ Total(size') \in Nat /\ Total(size) <= Total(size')
      <3>1. Reserved(size')
        BY TurnResizes DEF Sizes
      <3> QED
        BY <3>1, GrowSettles, TotalInNat DEF Sizes
    <2>6. HasItsUnits(size, entry) => HasItsUnits(size', entry)
      BY <2>2 DEF HasItsUnits
    <2>7. HasNoRoom(size, entry) => HasNoRoom(size', entry)
      BY <2>2, <2>4, <2>5, SizesAssumption DEF HasNoRoom
    <2> QED
      BY <2>1, <2>6, <2>7 DEF Settled
  <1> QED
    BY <1>1, <1>2

\* Only the second loop's turns and its beginning matter.
LEMMA FilledStep ==
  KnownPools /\ Sizes /\ Filled /\ [Next]_vars => Filled'
  <1> SUFFICES ASSUME KnownPools, Sizes, Filled, [Next]_vars PROVE Filled'
    OBVIOUS
  <1>1. ASSUME UNCHANGED <<size, listener>> PROVE Filled'
    BY <1>1 DEF Filled
  <1>2. ASSUME listener'.at # "grow" PROVE Filled'
    BY <1>2 DEF Filled
  <1>3. ASSUME NEW p \in Pool, AddPool(p) PROVE Filled'
    BY <1>2, <1>3 DEF AddPool, Accepting, Idle
  <1>4. CASE ReadStats \/ UnknownPool \/ UNCHANGED vars
    BY <1>1, <1>4 DEF ReadStats, UnknownPool, vars
  <1>5. ASSUME NEW config \in Configs, NEW read, Start(config, read) PROVE Filled'
    BY <1>2, <1>5 DEF Start
  <1>6. ASSUME NEW config \in Configs, SendPartition(config) \/ SendAllocation(config)
        PROVE  Filled'
    BY <1>5, <1>6 DEF SendPartition, SendAllocation
  <1>7. ASSUME Shrink \/ Grow
        PROVE  /\ Working /\ listener.i \in Nat
               /\ \A j \in DOMAIN listener.config : j \in Nat
    <2>1. Working
      BY <1>7 DEF Shrink, Grow, Turn, KnownPools, Idle
    <2> QED
      BY <2>1, ConfigShape DEF Working
  <1>8. CASE Shrink
    <2>1. CASE Last
      <3>1. listener' = [listener EXCEPT !.at = "grow", !.i = 1]
        BY <1>8, <2>1 DEF Shrink, Turn, Growing
      <3>2. listener'.i = 1 /\ listener'.config = listener.config
        BY <1>7, <1>8, <3>1 DEF Working
      <3>3. \A j \in DOMAIN listener.config : ~(j < 1)
        BY <1>7, <1>8, ConfigShape DEF Working
      <3> QED
        BY <3>2, <3>3 DEF Filled
    <2>2. CASE ~Last
      <3>1. listener' = [listener EXCEPT !.i = @ + 1] /\ listener.at = "shrink"
        BY <1>8, <2>2 DEF Shrink, Turn
      <3>2. listener'.at # "grow"
        BY <1>7, <1>8, <3>1 DEF Working
      <3> QED
        BY <1>2, <3>2
    <2> QED
      BY <2>1, <2>2
  <1>9. CASE Grow
    <2>1. CASE Last
      BY <1>2, <1>9, <2>1 DEF Grow, Turn, Idle
    <2>2. CASE ~Last
      <3>1. listener' = [listener EXCEPT !.i = @ + 1]
        BY <1>9, <2>2 DEF Grow, Turn
      <3>2. listener'.config = listener.config /\ listener'.i = listener.i + 1
        BY <1>7, <1>9, <3>1 DEF Working
      <3>3. \A j \in DOMAIN listener.config :
              j < listener.i + 1 => j < listener.i \/ j = listener.i
        BY <1>7, <1>9
      <3>4. \A j \in DOMAIN listener.config :
              j < listener.i + 1 => Settled(size', listener.config[j])
        BY <1>9, <3>3, GrowFills
      <3> QED
        BY <3>2, <3>4 DEF Filled
    <2> QED
      BY <2>1, <2>2
  <1> QED
    BY <1>3, <1>4, <1>6, <1>8, <1>9 DEF Next

\* The last turn of the second loop leaves all the pools settled.
LEMMA DoneSettled ==
  ASSUME KnownPools, Sizes, Filled, [Next]_vars, Done
  PROVE  \A j \in DOMAIN listener.config : Settled(size', listener.config[j])
  <1>1. Grow /\ Last
    BY DoneIsLastGrow
  <1>2. /\ listener.i \in Nat
        /\ \A j \in DOMAIN listener.config : j \in Nat /\ j <= Len(listener.config)
    <2>1. Working
      BY <1>1 DEF Grow, Turn, KnownPools, Idle
    <2> QED
      BY <2>1, ConfigShape DEF Working
  <1>3. \A j \in DOMAIN listener.config : j < listener.i \/ j = listener.i
    BY <1>1, <1>2 DEF Last
  <1> QED
    BY <1>1, <1>3, GrowFills

\* When the request of a configuration is done, whether or not it fits, no pool is
\* above its units and one that is below them lacks more memory than is left
\* (executeNewConfig, resizePool).
THEOREM OnlyMemoryLacks == Spec => ShortOnlyOfMemory
  <1>1. Init => Filled
    BY DEF Init, Filled, Idle
  <1>2. Spec => []Filled
    BY <1>1, FilledStep, Known, SizesInvariant, PTL DEF Spec
  <1>3. KnownPools /\ Sizes /\ Filled /\ [Next]_vars
          => [Done => \A i \in DOMAIN listener.config :
                        \/ HasItsUnits(size', listener.config[i])
                        \/ HasNoRoom(size', listener.config[i])]_vars
    BY DoneSettled DEF Settled
  <1> QED
    BY <1>2, <1>3, Known, SizesInvariant, PTL DEF Spec, ShortOnlyOfMemory
=============================================================================
