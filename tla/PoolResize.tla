----------------------------- MODULE PoolResize -----------------------------
(***************************************************************************)
(* How the memory of the cache is split among its pools: the listener      *)
(* thread of the server creates a pool for "A:<pool>" (addpool_), tells    *)
(* the sizes for "G" (getCacheStats) and resizes the pools for "S:..."     *)
(* (executeNewConfig, resizePool); a scheduler (src/schedule) sends new    *)
(* sizes, either a fixed allocation or a partition of what it read before. *)
(* Each request is a connection of its own, others may come between.       *)
(* The pools themselves are CacheLib's: growPool returns false when the    *)
(* memory that no pool has reserved is too little, addPool throws then,    *)
(* and getPoolStats throws for a pool that does not exist.                 *)
(*                                                                         *)
(* Memory is counted in grains; Unit of them are one SIZE_CONV.            *)
(***************************************************************************)
EXTENDS Naturals, Sequences, FiniteSets, FiniteSetsExt

CONSTANTS
  Pool,
  CacheSize,  \* grains CacheLib can reserve for pools
  PoolSize,   \* poolSize, grains of a pool when it is created (-p)
  Unit,       \* SIZE_CONV
  MaxConfigs  \* bound: how many configurations the scheduler sends

ASSUME SizesAssumption ==
  CacheSize \in Nat /\ PoolSize \in Nat /\ Unit \in Nat \ {0} /\ MaxConfigs \in Nat

VARIABLES
  size,      \* grains reserved for each existing pool
  up,        \* the server runs
  listener,  \* the "S" request the listener is working on
  stats,     \* what the scheduler read, until it sends a configuration
  sent       \* configurations sent

vars == <<size, up, listener, stats, sent>>

Total(f)   == MapThenSumSet(LAMBDA p : f[p], DOMAIN f)
Unreserved == CacheSize - Total(size)
InUnits(n) == n \div Unit

\* A configuration: pools, each once, and the units each is to have.
Entry   == [pool : Pool, units : 0 .. InUnits(CacheSize)]
Configs == {config \in UNION {[1 .. n -> Entry] : n \in 1 .. Cardinality(Pool)} :
              \A i, j \in DOMAIN config : i # j => config[i].pool # config[j].pool}
PoolsOf(config) == {config[i].pool : i \in DOMAIN config}

NoPools == [p \in {} |-> 0]
Idle    == [at |-> "accept", config |-> <<>>, i |-> 1, read |-> FALSE]

Init ==
  /\ size = NoPools
  /\ up = TRUE
  /\ listener = Idle
  /\ stats = NoPools
  /\ sent = 0

-----------------------------------------------------------------------------
(***************************************************************************)
(* Requests to the listener, which handles one at a time.                  *)
(***************************************************************************)
Accepting == up /\ listener = Idle

\* addpool_: an existing pool is kept; nothing catches what addPool throws.
AddPool(p) ==
  /\ Accepting
  /\ p \notin DOMAIN size
  /\ IF PoolSize <= Unreserved
       THEN /\ size' = [q \in DOMAIN size \cup {p} |-> IF q = p THEN PoolSize ELSE size[q]]
            /\ UNCHANGED up
       ELSE /\ up' = FALSE
            /\ UNCHANGED size
  /\ UNCHANGED <<listener, stats, sent>>

\* getCacheStats: whole units, rounded up.
StatsRoundedUp == [p \in DOMAIN size |-> InUnits(size[p] + Unit - 1)]

\* The stats list the pools clients have asked for, created or not.
StatsOfAll ==
  [p \in Pool |-> IF p \in DOMAIN size THEN InUnits(size[p]) ELSE 0]

\* getCacheStats: whole units.
Stats == [p \in DOMAIN size |-> InUnits(size[p])]

ReadStats ==
  /\ Accepting
  /\ stats' = Stats
  /\ UNCHANGED <<size, up, listener, sent>>

Start(config, read) ==
  /\ Accepting
  /\ sent < MaxConfigs
  /\ listener' = [at |-> "shrink", config |-> config, i |-> 1, read |-> read]
  /\ stats' = NoPools
  /\ sent' = sent + 1
  /\ UNCHANGED <<size, up>>

\* The scheduler shares out anew what it read.
SendPartition(config) ==
  /\ PoolsOf(config) = DOMAIN stats
  /\ Total([i \in DOMAIN config |-> config[i].units]) = Total(stats)
  /\ Start(config, TRUE)

\* The scheduler sends sizes it was given.
SendAllocation(config) == Start(config, FALSE)

-----------------------------------------------------------------------------
(***************************************************************************)
(* executeNewConfig: one loop over the configuration that shrinks pools,   *)
(* and then one that grows pools.                                          *)
(***************************************************************************)
Target == listener.config[listener.i]
Curr   == InUnits(size[Target.pool])

\* The loops run one turn too far.
LastOffByOne == listener.i > Len(listener.config)

Last == listener.i = Len(listener.config)

\* resizePool: the result of growPool is not looked at.
Resized(p, grains) ==
  IF grains > size[p] /\ grains - size[p] > Unreserved
    THEN size
    ELSE [size EXCEPT ![p] = grains]

\* One turn of the loop at the state at; resize tells whether the pool is
\* resized.
Turn(at, resize, next) ==
  /\ up /\ listener.at = at
  /\ Target.pool \in DOMAIN size
  /\ size' = IF resize THEN Resized(Target.pool, Target.units * Unit) ELSE size
  /\ listener' = IF Last THEN next ELSE [listener EXCEPT !.i = @ + 1]
  /\ UNCHANGED <<up, stats, sent>>

Growing == [listener EXCEPT !.at = "grow", !.i = 1]

\* The loop does not get to the last pool.
ShrinkAllButLast == Turn("shrink", Curr > Target.units /\ ~Last, Growing)

Shrink == Turn("shrink", Curr > Target.units, Growing)

\* The loop ends at the first pool that cannot grow.
GrowUntilNoRoom ==
  IF up /\ listener.at = "grow" /\ Target.pool \in DOMAIN size
     /\ Curr < Target.units /\ Target.units * Unit - size[Target.pool] > Unreserved
    THEN listener' = Idle /\ UNCHANGED <<size, up, stats, sent>>
    ELSE Turn("grow", Curr < Target.units, Idle)

Grow == Turn("grow", Curr < Target.units, Idle)

\* getPoolSizeFromName asks for the size of pool -1.
UnknownPool ==
  /\ up /\ listener.at # "accept"
  /\ Target.pool \notin DOMAIN size
  /\ up' = FALSE
  /\ UNCHANGED <<size, listener, stats, sent>>

Next ==
  \/ \E p \in Pool : AddPool(p)
  \/ ReadStats
  \/ \E config \in Configs : SendPartition(config) \/ SendAllocation(config)
  \/ Shrink \/ Grow \/ UnknownPool

Spec == Init /\ [][Next]_vars

-----------------------------------------------------------------------------
\* The sizes and what the listener and the scheduler hold are well-formed, and
\* no more memory is reserved than there is: a size computed before a loop is
\* never granted after the memory is gone (cachelibHeader.cpp:136-148).
TypeOK ==
  /\ DOMAIN size \subseteq Pool
  /\ \A p \in DOMAIN size : size[p] \in 0 .. CacheSize
  /\ Total(size) <= CacheSize
  /\ up \in BOOLEAN
  /\ listener = Idle \/ /\ listener.at \in {"shrink", "grow"}
                        /\ listener.config \in Configs
                        /\ listener.i \in DOMAIN listener.config
                        /\ listener.read \in BOOLEAN
  /\ DOMAIN stats \subseteq Pool
  /\ sent \in 0 .. MaxConfigs

Done == listener.at = "grow" /\ listener' = Idle

\* Of the sizes s, an entry's pool has its units.
HasItsUnits(s, entry) == InUnits(s[entry.pool]) = entry.units

Reached == \A i \in DOMAIN listener.config : HasItsUnits(size', listener.config[i])

\* The grains that a pool has when the configuration is in force: a pool that
\* has its units already is left alone, with what it has above them.
Wanted(p) ==
  LET changed == {i \in DOMAIN listener.config :
                    listener.config[i].pool = p /\ listener.config[i].units # InUnits(size[p])}
  IN IF changed = {} THEN size[p]
     ELSE Unit * listener.config[CHOOSE i \in changed : TRUE].units

Fits == Total([p \in DOMAIN size |-> Wanted(p)]) <= CacheSize

\* A configuration that fits into the memory is in force when its request is
\* done, although each pool is resized alone and a grow that fails is ignored:
\* all the shrinks come first (server.cpp:73-86).
ConfigReached == [][Done /\ Fits => Reached]_vars

\* A new partition of what the scheduler read is in force when its request is
\* done, although the sizes it read were rounded and pools may have been added
\* since (server.cpp:46-55, 73-86).
PartitionReached == [][Done /\ listener.read => Reached]_vars

\* Whether or not a configuration fits, when its request is done no pool is above
\* its units, and one that is below them needs more grains than are left: what is
\* ignored when a grow fails is lack of memory, and the other pools are not held
\* up by it (server.cpp:73-86, cachelibHeader.cpp:136-148).
HasNoRoom(s, entry) ==
  /\ InUnits(s[entry.pool]) < entry.units
  /\ entry.units * Unit - s[entry.pool] > CacheSize - Total(s)

ShortOnlyOfMemory ==
  [][Done => \A i \in DOMAIN listener.config :
               \/ HasItsUnits(size', listener.config[i])
               \/ HasNoRoom(size', listener.config[i])]_vars

\* Two things end the server: a pool is asked for and there is no memory left for
\* one, or a configuration names a pool nobody has created.  The second happens
\* while pools are shrunk, before one has grown, and never to a new partition of what
\* the scheduler read, whatever was created in between
\* (server.cpp:73-86, cachelibHeader.cpp:126-134).
ServerEnds ==
  ~up => IF listener = Idle
           THEN DOMAIN size # Pool /\ ~(PoolSize <= Unreserved)
           ELSE listener.at = "shrink" /\ ~listener.read /\ Target.pool \notin DOMAIN size
=============================================================================
