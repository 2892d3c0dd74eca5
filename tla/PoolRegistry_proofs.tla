------------------------- MODULE PoolRegistry_proofs -------------------------
(***************************************************************************)
(* Proofs about PoolRegistry for any pools, clients and bounds.            *)
(***************************************************************************)
EXTENDS PoolRegistry, Sums

ThreadStates == {"none", "open", "size", "loop", "unlink", "count", "ended", "killed"}
ClientStates == {"new", "asked", "open", "attach", "ready", "using", "closing", "gone"}
Objects      == {Nobody} \cup Sessions

Threads == [at : ThreadStates, step : 1 .. 4, name : {NoName} \cup Names,
            has : [Resources -> Objects]]
Clients == [at : ClientStates, step : 1 .. 4, pool : {Nobody} \cup Pool,
            name : {NoName} \cup Names, session : Objects, has : [Resources -> Objects]]

LiveOf(p) == {i \in Sessions : Live(i) /\ thread[i].name[1] = p}

-----------------------------------------------------------------------------
(***************************************************************************)
(* The registration.  Which numbers of a pool are in use: those of its     *)
(* live sessions, which lie below next; and next is 0 again only when the  *)
(* listener saw a count of 0, which nobody but the listener raises.        *)
(***************************************************************************)
Shape ==
  /\ server \in [up : BOOLEAN, restarts : Nat]
  /\ listener \in [at : {"accept", "check", "new", "more"},
                   client : {Nobody} \cup Client, pool : {Nobody} \cup Pool]
  /\ poolRecord \in [Pool -> [live : Nat, next : Nat]]
  /\ started \in 0 .. MaxSessions
  /\ thread \in [Sessions -> Threads]
  /\ client \in [Client -> Clients]
  /\ named \in [Resources -> [Names -> Objects]]

\* What the listener works on, and what a client has said or been told so far.
Requests ==
  /\ listener.at # "accept" => /\ server.up
                               /\ listener.client \in Client /\ listener.pool \in Pool
                               /\ client[listener.client].at = "asked"
  /\ \A c \in Client :
       /\ client[c].at = "asked" => client[c].pool \in Pool
       /\ client[c].at \in {"new", "asked"} => client[c].step = 1
       /\ client[c].at = "open" => client[c].name \in Names

Numbers ==
  /\ \A i \in Sessions : thread[i].at = "none" <=> i > started
  /\ \A i \in Sessions : thread[i].at # "none" => thread[i].name \in Names
  /\ \A i \in Sessions : Live(i) => /\ server.up
                                    /\ thread[i].name[2] < poolRecord[thread[i].name[1]].next
  /\ \A i, j \in Sessions : Live(i) /\ Live(j) /\ i # j => thread[i].name # thread[j].name
  /\ \A p \in Pool : poolRecord[p].next <= started
  /\ listener.at = "new" => LiveOf(listener.pool) = {}

\* An object has the name of the session that created it, and so has everybody
\* who opened it by that name.
Creators ==
  /\ \A r \in Resources : \A n \in Names :
       named[r][n] # Nobody => /\ thread[named[r][n]].at # "none"
                               /\ thread[named[r][n]].name = n
  /\ \A i \in Sessions : \A r \in Resources :
       LET o == thread[i].has[r]
       IN o # Nobody => /\ thread[i].at # "none" /\ thread[o].at # "none"
                        /\ thread[o].name = thread[i].name

Registered == Shape /\ Requests /\ Numbers /\ CountExact /\ Creators

(***************************************************************************)
(* The first run of the server.  A session's names stand for its own       *)
(* objects from the moment it creates them until it removes them, and its  *)
(* thread stays as long as its client does.                                *)
(***************************************************************************)
Position == [shm |-> 1, request |-> 2, Server |-> 3, getback |-> 4]

Opened(t, r) == \/ t.at \in {"loop", "unlink", "count", "ended"}
                \/ t.at = "size" /\ r = "shm"
                \/ t.at = "open" /\ Position[r] < t.step

Stands(t, r) == /\ Opened(t, r)
                /\ t.at \notin {"count", "ended"}
                /\ t.at = "unlink" => Position[r] >= t.step

ObjectShape ==
  /\ sem \in [Semaphores -> [Sessions -> Nat]]
  /\ area \in [Sessions -> [sized : BOOLEAN, ctrl : {"SET", "CLOSE"}]]

ThreadInv(i) ==
  LET t == thread[i]
  IN /\ t.at # "killed"
     /\ t.at \in {"size", "loop"} => t.step = 1
     /\ \A r \in Resources : Opened(t, r) => t.has[r] = i
     /\ \A r \in Resources : Stands(t, r) => named[r][t.name] = i
     /\ t.at = "loop" \/ (t.at = "open" /\ t.step > 1) => area[i].sized
     /\ t.at = "open" /\ t.step > 3 => sem["Server"][i] = 1
     /\ t.at \in {"none", "open", "size"} =>
          sem["request"][i] = 0 /\ sem["Server"][i] <= 1 /\ area[i].ctrl = "SET"

NamesStand ==
  \A r \in Resources : \A n \in Names :
    named[r][n] # Nobody => Stands(thread[named[r][n]], r)

Served == {"open", "attach", "ready", "using", "closing"}

ClientInv(c) ==
  LET b == client[c]
      s == client[c].session
  IN b.at \in Served =>
     /\ s \in Sessions
     /\ thread[s].at \in {"open", "size", "loop"}
     /\ b.name = thread[s].name
     /\ \A r \in Resources :
          b.at # "open" \/ Position[r] < b.step => b.has[r] = s /\ Opened(thread[s], r)
     /\ b.at # "closing" => area[s].ctrl = "SET"
     /\ b.at \in {"open", "attach"} => sem["request"][s] = 0
     /\ b.at \in {"using", "closing"} => sem["request"][s] = 0 /\ sem["Server"][s] = 0
     /\ sem["request"][s] + sem["Server"][s] <= 1

OneClient ==
  \A c, d \in Client :
    c # d /\ client[c].at \in Served /\ client[d].at \in Served =>
      client[c].session # client[d].session

FirstInv ==
  /\ ObjectShape
  /\ \A i \in Sessions : ThreadInv(i)
  /\ NamesStand
  /\ \A c \in Client : ClientInv(c)
  /\ OneClient

FirstServed == FirstRun => FirstInv

-----------------------------------------------------------------------------
\* The four resources stand in Order at their positions, the area first.
LEMMA OrderFacts ==
  /\ Len(Order) = 4
  /\ \A k \in 1 .. 4 : /\ Order[k] \in Resources /\ Position[Order[k]] = k
                       /\ Order[k] = "shm" <=> k = 1
  /\ \A r \in Resources : Position[r] \in 1 .. 4 /\ Order[Position[r]] = r
  BY DEF Order, Resources, Semaphores, Position

\* The sessions of a pool can be counted.
LEMMA Countable ==
  ASSUME NEW p
  PROVE  IsFiniteSet(LiveOf(p)) /\ Cardinality(LiveOf(p)) \in Nat
  <1>1. IsFiniteSet(Sessions)
    BY BoundsAssumption, FS_Interval DEF Sessions
  <1>2. LiveOf(p) \in SUBSET Sessions
    BY DEF LiveOf
  <1> QED
    BY <1>1, <1>2, FS_Subset, FS_CardinalityType

\* No session and no count at the start.
LEMMA InitRegistered == Init => Registered
  <1> SUFFICES ASSUME Init PROVE Registered
    OBVIOUS
  <1>1. Shape
    BY BoundsAssumption DEF Init, Shape, Idle, NoHandles, Threads, Clients, ThreadStates,
       ClientStates, Objects, Names
  <1>2. Requests
    BY DEF Init, Requests, Idle
  <1>3. \A p : LiveOf(p) = {}
    BY DEF Init, LiveOf, Live
  <1>4. Numbers
    BY <1>3, BoundsAssumption DEF Init, Numbers, Live, Idle, Sessions
  <1>5. CountExact
    <2>1. \A p : Cardinality({i \in Sessions : Live(i) /\ thread[i].name[1] = p}) = 0
      BY <1>3, FS_EmptySet DEF LiveOf
    <2> QED
      BY <2>1 DEF Init, CountExact
  <1>6. Creators
    BY DEF Init, Creators, NoHandles
  <1> QED
    BY <1>1, <1>2, <1>3, <1>4, <1>5, <1>6 DEF Registered

\* A session that goes on keeps its name and its number.
LEMMA ThreadGoesOn ==
  ASSUME Registered, NEW i \in Sessions, Live(i), NEW t, thread' = [thread EXCEPT ![i] = t],
         t.name = thread[i].name, t.at \in {"open", "size", "loop", "unlink", "count"},
         UNCHANGED <<server, listener, poolRecord, started>>
  PROVE  Numbers' /\ CountExact'
  <1>1. \A j \in Sessions : /\ thread'[j].name = thread[j].name
                            /\ Live(j)' <=> Live(j)
                            /\ thread'[j].at = "none" <=> thread[j].at = "none"
    BY DEF Registered, Shape, Threads, Live
  <1>2. \A p : LiveOf(p)' = LiveOf(p)
    BY <1>1 DEF LiveOf
  <1>3. Numbers'
    BY <1>1, <1>2 DEF Registered, Numbers
  <1>4. CountExact'
    BY <1>2 DEF Registered, CountExact, LiveOf
  <1> QED
    BY <1>3, <1>4

\* So does a session that nobody touches.
LEMMA ThreadsRest ==
  ASSUME Registered, UNCHANGED <<server, poolRecord, started, thread>>,
         listener' = listener \/ listener'.at # "new"
  PROVE  Numbers' /\ CountExact'
  <1>1. \A p : LiveOf(p)' = LiveOf(p)
    BY DEF LiveOf, Live
  <1>2. Numbers'
    BY <1>1 DEF Registered, Numbers, Live
  <1>3. CountExact'
    BY <1>1 DEF Registered, CountExact, LiveOf
  <1> QED
    BY <1>2, <1>3

\* Taking a request on changes no session.
LEMMA AcceptRegisters ==
  ASSUME Registered, NEW c \in Client, Accept(c)
  PROVE  Registered'
  <1>1. Shape'
    BY DEF Registered, Shape, Requests, Accept, listenerOnly
  <1>2. Requests'
    BY DEF Registered, Requests, Accept, listenerOnly
  <1>3. Numbers' /\ CountExact'
    BY ThreadsRest DEF Accept, listenerOnly
  <1>4. Creators'
    BY DEF Registered, Creators, Accept, listenerOnly
  <1> QED
    BY <1>1, <1>2, <1>3, <1>4 DEF Registered

\* A count of 0, seen outside the lock, means that the pool has no live session.
LEMMA CheckRegisters ==
  ASSUME Registered, CheckRecord
  PROVE  Registered'
  <1> USE DEF Registered
  <1>1. Shape'
    BY DEF Shape, CheckRecord, listenerOnly
  <1>2. Requests'
    BY DEF Shape, Requests, CheckRecord, listenerOnly
  <1>3. \A p : LiveOf(p)' = LiveOf(p)
    BY DEF CheckRecord, listenerOnly, LiveOf, Live
  <1>4. listener'.at = "new" => LiveOf(listener'.pool) = {}
    <2> SUFFICES ASSUME listener'.at = "new" PROVE LiveOf(listener'.pool) = {}
      OBVIOUS
    <2>1. poolRecord[listener.pool].live = 0 /\ listener'.pool = listener.pool
      BY DEF Shape, CheckRecord
    <2>2. server.up /\ listener.pool \in Pool
      BY DEF Requests, CheckRecord
    <2>3. Cardinality(LiveOf(listener.pool)) = 0
      BY <2>1, <2>2 DEF CountExact, LiveOf
    <2> QED
      BY <2>1, <2>3, Countable, FS_EmptySet
  <1>5. Numbers'
    BY <1>3, <1>4 DEF Numbers, CheckRecord, listenerOnly, Live
  <1>6. CountExact'
    BY <1>3 DEF CountExact, LiveOf, CheckRecord, listenerOnly
  <1>7. Creators'
    BY DEF Creators, CheckRecord, listenerOnly
  <1> QED
    BY <1>1, <1>2, <1>5, <1>6, <1>7

\* The new session's number is above those of the pool's live sessions: either
\* the record was counted on, or there are none.
LEMMA AddRegisters ==
  ASSUME Registered, AddSession
  PROVE  Registered'
  <1> USE DEF Registered
  <1> DEFINE p   == listener.pool
             c   == listener.client
             i   == started + 1
             rec == IF listener.at = "new" THEN [live |-> 0, next |-> 0] ELSE poolRecord[p]
             n   == <<p, rec.next>>
  <1>1. p \in Pool /\ c \in Client /\ client[c].at = "asked" /\ client[c].step = 1 /\ server.up
    BY DEF Requests, AddSession
  <1>2. i \in Sessions /\ i = started' /\ started < MaxSessions
    BY BoundsAssumption DEF Shape, AddSession, Sessions
  <1>3. rec \in [live : Nat, next : Nat] /\ rec.next <= started
    BY <1>1 DEF Shape, Numbers
  <1>4. n \in Names
    BY <1>1, <1>2, <1>3, BoundsAssumption DEF Names, Shape
  <1>5. /\ thread' = [thread EXCEPT ![i] = [at |-> "open", step |-> 1, name |-> n,
                                            has |-> NoHandles]]
        /\ poolRecord' = [poolRecord EXCEPT ![p] = [live |-> rec.live + 1,
                                                    next |-> rec.next + 1]]
        /\ client' = [client EXCEPT ![c] = [@ EXCEPT !.at = "open", !.name = n, !.session = i]]
        /\ listener' = Idle
        /\ UNCHANGED <<server, named>>
    BY DEF AddSession, Counted
  <1>6. thread[i].at = "none"
    BY <1>2 DEF Numbers, Shape
  <1> HIDE DEF p, c, i, rec, n
  <1>7. Shape'
    <2>1. poolRecord' \in [Pool -> [live : Nat, next : Nat]] /\ started' \in 0 .. MaxSessions
      BY <1>1, <1>2, <1>3, <1>5, BoundsAssumption DEF Shape, i
    <2>2. thread' \in [Sessions -> Threads]
      BY <1>2, <1>4, <1>5 DEF Shape, NoHandles, Threads, ThreadStates, Objects
    <2>3. client'[c] \in Clients
      <3> DEFINE b == client[c]
      <3>1. b \in Clients
        BY <1>1 DEF Shape
      <3>2. client'[c] = [b EXCEPT !.at = "open", !.name = n, !.session = i]
        BY <1>1, <1>5 DEF Shape
      <3> HIDE DEF b
      <3> QED
        BY <3>1, <3>2, <1>2, <1>4 DEF Clients, ClientStates, Objects
    <2> QED
      BY <2>1, <2>2, <2>3, <1>1, <1>5 DEF Shape, Idle
  <1>8. Requests'
    BY <1>1, <1>4, <1>5 DEF Requests, Shape, Idle
  <1>9. \A j \in Sessions : /\ j # i => thread'[j] = thread[j]
                            /\ thread'[i].at = "open" /\ thread'[i].name = n
    BY <1>2, <1>5 DEF Shape
  <1>10. \A q : LiveOf(q)' = IF q = p THEN LiveOf(p) \cup {i} ELSE LiveOf(q)
    BY <1>2, <1>6, <1>9 DEF LiveOf, Live, n
  <1>11. i \notin LiveOf(p)
    BY <1>6 DEF LiveOf, Live
  <1>12. Cardinality(LiveOf(p)) = rec.live
    <2>1. CASE listener.at = "new"
      BY <2>1, FS_EmptySet DEF Numbers, rec, p
    <2>2. CASE listener.at # "new"
      BY <2>2, <1>1 DEF CountExact, LiveOf, rec
    <2> QED
      BY <2>1, <2>2
  <1>13. CountExact'
    <2> SUFFICES ASSUME NEW q \in Pool
                 PROVE  poolRecord'[q].live = Cardinality(LiveOf(q)')
      BY DEF CountExact, LiveOf
    <2>1. CASE q = p
      <3>1. Cardinality(LiveOf(p) \cup {i}) = Cardinality(LiveOf(p)) + 1
        BY <1>11, Countable, FS_AddElement
      <3>2. poolRecord'[p] = [live |-> rec.live + 1, next |-> rec.next + 1]
        BY <1>1, <1>5 DEF Shape
      <3> QED
        BY <2>1, <3>1, <3>2, <1>10, <1>12
    <2>2. CASE q # p
      <3>1. poolRecord'[q] = poolRecord[q] /\ LiveOf(q)' = LiveOf(q)
        BY <2>2, <1>5, <1>10 DEF Shape
      <3>2. poolRecord[q].live = Cardinality(LiveOf(q))
        BY <1>1 DEF CountExact, LiveOf
      <3> QED
        BY <3>1, <3>2
    <2> QED
      BY <2>1, <2>2
  <1>14. \A j \in Sessions : Live(j) /\ thread[j].name[1] = p => thread[j].name[2] < rec.next
    BY DEF Numbers, LiveOf, rec, p
  <1>15. Numbers'
    <2>1. \A j \in Sessions : thread'[j].at = "none" <=> j > started'
      <3> SUFFICES ASSUME NEW j \in Sessions
                   PROVE  thread'[j].at = "none" <=> j > started + 1
        BY <1>2 DEF i
      <3>1. started \in Nat /\ j \in Nat
        BY DEF Shape, Sessions
      <3>2. thread[j].at = "none" <=> j > started
        BY DEF Numbers
      <3>3. CASE j = i
        BY <3>1, <3>3, <1>9 DEF i
      <3>4. CASE j # i
        <4>1. thread'[j] = thread[j] /\ j # started + 1
          BY <3>4, <1>9 DEF i
        <4> QED
          BY <4>1, <3>1, <3>2
      <3> QED
        BY <3>3, <3>4
    <2>2. \A j \in Sessions : thread'[j].at # "none" => thread'[j].name \in Names
      BY <1>4, <1>9 DEF Numbers
    <2>3. \A j \in Sessions : Live(j)' =>
             server'.up /\ thread'[j].name[2] < poolRecord'[thread'[j].name[1]].next
      <3> SUFFICES ASSUME NEW j \in Sessions, Live(j)'
                   PROVE  thread'[j].name[2] < poolRecord'[thread'[j].name[1]].next
        BY <1>1, <1>5
      <3>1. CASE j = i
        BY <3>1, <1>1, <1>3, <1>5, <1>9 DEF Shape, n
      <3>2. CASE j # i
        <4>1. Live(j) /\ thread'[j].name = thread[j].name /\ thread[j].name \in Names
          BY <3>2, <1>9 DEF Live, Numbers
        <4>2. thread[j].name[1] \in Pool /\ thread[j].name[2] \in Nat
          BY <4>1 DEF Names
        <4> QED
          BY <4>1, <4>2, <1>1, <1>3, <1>5, <1>14 DEF Numbers, Shape
      <3> QED
        BY <3>1, <3>2
    <2>4. \A j, k \in Sessions : Live(j)' /\ Live(k)' /\ j # k => thread'[j].name # thread'[k].name
      <3>1. \A j \in Sessions : Live(j)' /\ j # i => Live(j) /\ thread'[j].name # n
        BY <1>3, <1>9, <1>14 DEF Live, n
      <3> QED
        BY <3>1, <1>9 DEF Numbers
    <2>5. \A q \in Pool : poolRecord'[q].next <= started'
      BY <1>1, <1>2, <1>3, <1>5 DEF Numbers, Shape, i
    <2> QED
      BY <2>1, <2>2, <2>3, <2>4, <2>5, <1>5 DEF Numbers, Idle
  <1>16. Creators'
    BY <1>2, <1>5, <1>6, <1>9 DEF Creators, Shape, NoHandles, Objects
  <1> QED
    BY <1>7, <1>8, <1>13, <1>15, <1>16

\* A thread that dealt with one resource goes on to the next, or past the last.
LEMMA ThreadFollowing ==
  ASSUME NEW t \in Threads, NEW next \in ThreadStates
  PROVE  LET f == Following(t, next)
         IN /\ f \in Threads /\ f.name = t.name /\ f.has = t.has
            /\ IF t.step = 4 THEN f.at = next /\ f.step = 1
                             ELSE f.at = t.at /\ f.step = t.step + 1
  <1>1. Following(t, next) = IF t.step = 4 THEN [t EXCEPT !.at = next, !.step = 1]
                             ELSE [t EXCEPT !.step = t.step + 1]
    BY OrderFacts DEF Following
  <1>2. t.step \in 1 .. 4
    BY DEF Threads
  <1>3. CASE t.step = 4
    <2>1. Following(t, next) = [at |-> next, step |-> 1, name |-> t.name, has |-> t.has]
      BY <1>1, <1>3 DEF Threads
    <2> QED
      BY <2>1, <1>3 DEF Threads
  <1>4. CASE t.step # 4
    <2>1. t.step + 1 \in 1 .. 4
      BY <1>2, <1>4
    <2> QED
      BY <2>1, <1>1, <1>4 DEF Threads
  <1> QED
    BY <1>3, <1>4

\* So does a client.
LEMMA ClientFollowing ==
  ASSUME NEW b \in Clients, NEW next \in ClientStates
  PROVE  LET f == Following(b, next)
         IN /\ f \in Clients /\ f.name = b.name /\ f.has = b.has
            /\ f.pool = b.pool /\ f.session = b.session
            /\ IF b.step = 4 THEN f.at = next /\ f.step = 1
                             ELSE f.at = b.at /\ f.step = b.step + 1
  <1>1. Following(b, next) = IF b.step = 4 THEN [b EXCEPT !.at = next, !.step = 1]
                             ELSE [b EXCEPT !.step = b.step + 1]
    BY OrderFacts DEF Following
  <1>2. b.step \in 1 .. 4
    BY DEF Clients
  <1>3. CASE b.step = 4
    <2>1. Following(b, next) = [at |-> next, step |-> 1, pool |-> b.pool, name |-> b.name,
                               session |-> b.session, has |-> b.has]
      BY <1>1, <1>3 DEF Clients
    <2> QED
      BY <2>1, <1>3 DEF Clients
  <1>4. CASE b.step # 4
    <2>1. b.step + 1 \in 1 .. 4
      BY <1>2, <1>4
    <2> QED
      BY <2>1, <1>1, <1>4 DEF Clients
  <1> QED
    BY <1>3, <1>4

\* What ThreadOpen does to the thread and to the name.
LEMMA Opening ==
  ASSUME Shape, NEW i \in Sessions, ThreadOpen(i), thread[i].name \in Names
  PROVE  LET t == thread[i]
             r == Order[t.step]
             o == IF named[r][t.name] = Nobody THEN i ELSE named[r][t.name]
             u == thread'[i]
         IN /\ r \in Resources
            /\ u \in Threads /\ u.name = t.name /\ u.has = [t.has EXCEPT ![r] = o]
            /\ IF t.step = 1 THEN u.at = "size" /\ u.step = 1
               ELSE IF t.step = 4 THEN u.at = "loop" /\ u.step = 1
               ELSE u.at = "open" /\ u.step = t.step + 1
            /\ thread' = [thread EXCEPT ![i] = u]
            /\ named' = [named EXCEPT ![r][t.name] = o]
            /\ o \in Sessions
  <1> DEFINE t == thread[i]
             r == Order[t.step]
             o == IF named[r][t.name] = Nobody THEN i ELSE named[r][t.name]
             h == [t EXCEPT !.has[r] = o]
             u == IF r = "shm" THEN [h EXCEPT !.at = "size"] ELSE Following(h, "loop")
  <1>1. t \in Threads /\ t.at = "open"
    BY DEF Shape, ThreadOpen, ThreadAt
  <1>2. r \in Resources /\ (r = "shm" <=> t.step = 1)
    <2>1. t.step \in 1 .. 4
      BY <1>1 DEF Threads
    <2> QED
      BY <2>1, OrderFacts
  <1>3. named' = [named EXCEPT ![r][t.name] = o] /\ thread' = [thread EXCEPT ![i] = u]
    BY DEF ThreadOpen
  <1>4. thread'[i] = u
    BY <1>3 DEF Shape
  <1>5. o \in Sessions
    <2>1. t.name \in Names
      OBVIOUS
    <2>2. named[r][t.name] \in Objects
      BY <1>2, <2>1 DEF Shape
    <2> QED
      BY <2>2 DEF Objects
  <1>6. o \in Objects
    BY <1>5 DEF Objects
  <1>7. /\ h = [at |-> "open", step |-> t.step, name |-> t.name, has |-> [t.has EXCEPT ![r] = o]]
        /\ h \in Threads
    <2> HIDE DEF t, r, o
    <2>1. [t.has EXCEPT ![r] = o] \in [Resources -> Objects]
      BY <1>1, <1>2, <1>6 DEF Threads
    <2>2. h = [at |-> "open", step |-> t.step, name |-> t.name, has |-> [t.has EXCEPT ![r] = o]]
      BY <1>1 DEF Threads
    <2>3. "open" \in ThreadStates
      BY DEF ThreadStates
    <2> QED
      BY <1>1, <2>1, <2>2, <2>3 DEF Threads
  <1> HIDE DEF t, r, o
  <1>8.   /\ u \in Threads /\ u.name = t.name /\ u.has = [t.has EXCEPT ![r] = o]
          /\ IF t.step = 1 THEN u.at = "size" /\ u.step = 1
             ELSE IF t.step = 4 THEN u.at = "loop" /\ u.step = 1
             ELSE u.at = "open" /\ u.step = t.step + 1
    <2>1. CASE r = "shm"
      BY <2>1, <1>2, <1>7 DEF Threads, ThreadStates
    <2>2. CASE r # "shm"
      <3>1. "loop" \in ThreadStates
        BY DEF ThreadStates
      <3> QED
        BY <2>2, <3>1, <1>2, <1>7, ThreadFollowing
    <2> QED
      BY <2>1, <2>2
  <1> QED
    BY <1>2, <1>3, <1>4, <1>5, <1>8 DEF t, r, o

\* A thread opens an object of its own name, or creates it.
LEMMA OpenRegisters ==
  ASSUME Registered, NEW i \in Sessions, ThreadOpen(i)
  PROVE  Registered'
  <1> USE DEF Registered
  <1> DEFINE t == thread[i]
             r == Order[t.step]
             o == IF named[r][t.name] = Nobody THEN i ELSE named[r][t.name]
             u == thread'[i]
  <1>1. t.at = "open" /\ t.name \in Names /\ Live(i)
    BY DEF ThreadOpen, ThreadAt, Numbers, Live
  <1>2. /\ r \in Resources /\ o \in Sessions
        /\ u \in Threads /\ u.name = t.name /\ u.has = [t.has EXCEPT ![r] = o]
        /\ u.at \in {"size", "loop", "open"}
        /\ thread' = [thread EXCEPT ![i] = u]
        /\ named' = [named EXCEPT ![r][t.name] = o]
    BY <1>1, Opening
  <1>3. UNCHANGED <<server, listener, poolRecord, started, client>>
    BY DEF ThreadOpen
  <1> HIDE DEF t, r, o, u
  <1>4. Shape'
    BY <1>1, <1>2, <1>3 DEF Shape, Objects
  <1>5. Requests'
    BY <1>3 DEF Requests
  <1>6. Numbers' /\ CountExact'
    BY <1>1, <1>2, <1>3, ThreadGoesOn DEF t
  <1>7. \A j \in Sessions : /\ thread'[j].name = thread[j].name
                            /\ thread[j].at # "none" => thread'[j].at # "none"
    BY <1>2 DEF Shape, t
  <1>8. thread[o].at # "none" /\ thread[o].name = t.name
    BY <1>1, <1>2 DEF Creators, o, t
  <1>9. Creators'
    <2>1. ASSUME NEW q \in Resources, NEW n \in Names, named'[q][n] # Nobody
          PROVE  thread'[named'[q][n]].at # "none" /\ thread'[named'[q][n]].name = n
      <3>1. CASE q = r /\ n = t.name
        <4>1. named'[q][n] = o
          BY <3>1, <1>1, <1>2 DEF Shape
        <4> QED
          BY <4>1, <3>1, <1>2, <1>7, <1>8
      <3>2. CASE ~(q = r /\ n = t.name)
        <4>1. named'[q][n] = named[q][n] /\ named[q][n] \in Sessions
          BY <3>2, <2>1, <1>1, <1>2 DEF Shape, Objects
        <4> QED
          BY <4>1, <2>1, <1>7 DEF Creators
      <3> QED
        BY <3>1, <3>2
    <2>2. ASSUME NEW j \in Sessions, NEW q \in Resources, thread'[j].has[q] # Nobody
          PROVE  /\ thread'[j].at # "none" /\ thread'[thread'[j].has[q]].at # "none"
                 /\ thread'[thread'[j].has[q]].name = thread'[j].name
      <3>1. CASE j = i /\ q = r
        <4>1. thread'[j].has[q] = o
          BY <3>1, <1>2 DEF Shape, Threads, t, u
        <4> QED
          BY <4>1, <3>1, <1>1, <1>2, <1>7, <1>8 DEF t
      <3>2. CASE ~(j = i /\ q = r)
        <4>1. thread'[j].has[q] = thread[j].has[q] /\ thread[j].has[q] \in Objects
          BY <3>2, <1>2 DEF Shape, Threads, t, u
        <4> QED
          BY <4>1, <2>2, <1>7 DEF Creators, Objects
      <3> QED
        BY <3>1, <3>2
    <2> QED
      BY <2>1, <2>2 DEF Creators
  <1> QED
    BY <1>4, <1>5, <1>6, <1>9

\* A thread that changes neither its name nor its handles, and adds no name.
LEMMA SameHandles ==
  ASSUME Registered, NEW i \in Sessions, NEW u \in Threads, thread' = [thread EXCEPT ![i] = u],
         u.name = thread[i].name, u.has = thread[i].has,
         thread[i].at # "none" => u.at # "none",
         named' \in [Resources -> [Names -> Objects]],
         \A r \in Resources : \A n \in Names : named'[r][n] \in {Nobody, named[r][n]}
  PROVE  Creators'
  <1>1. \A j \in Sessions : /\ thread'[j].name = thread[j].name
                            /\ thread'[j].has = thread[j].has
                            /\ thread[j].at # "none" => thread'[j].at # "none"
    BY DEF Registered, Shape
  <1>2. \A j \in Sessions : \A r \in Resources : thread[j].has[r] \in Objects
    BY DEF Registered, Shape, Threads
  <1>3. \A r \in Resources : \A n \in Names : named[r][n] \in Objects
    BY DEF Registered, Shape
  <1> QED
    BY <1>1, <1>2, <1>3 DEF Registered, Creators, Objects

\* A thread that removes a name stays counted.
LEMMA UnlinkRegisters ==
  ASSUME Registered, NEW i \in Sessions, Unlink(i)
  PROVE  Registered'
  <1> USE DEF Registered
  <1> DEFINE t == thread[i]
             u == Following(t, "count")
  <1>1. t \in Threads /\ t.at = "unlink" /\ Live(i) /\ t.name \in Names
    BY DEF Unlink, ThreadAt, Live, Shape, Numbers
  <1>2. u \in Threads /\ u.name = t.name /\ u.has = t.has /\ u.at \in {"unlink", "count"}
    <2>1. "count" \in ThreadStates
      BY DEF ThreadStates
    <2> QED
      BY <2>1, <1>1, ThreadFollowing
  <1>3. /\ thread' = [thread EXCEPT ![i] = u]
        /\ UNCHANGED <<server, listener, poolRecord, started, client>>
    BY DEF Unlink
  <1>4. /\ named' \in [Resources -> [Names -> Objects]]
        /\ \A r \in Resources : \A n \in Names : named'[r][n] \in {Nobody, named[r][n]}
    BY <1>1 DEF Unlink, Shape, Objects
  <1> HIDE DEF u
  <1>5. Shape'
    BY <1>2, <1>3, <1>4 DEF Shape
  <1>6. Requests'
    BY <1>3 DEF Requests
  <1>7. Numbers' /\ CountExact'
    BY <1>1, <1>2, <1>3, ThreadGoesOn
  <1>8. Creators'
    BY <1>1, <1>2, <1>3, <1>4, SameHandles
  <1> QED
    BY <1>5, <1>6, <1>7, <1>8

\* Sizing the area and handling a request change neither names nor counts.
LEMMA SizeAndHandleRegister ==
  ASSUME Registered, NEW i \in Sessions, SizeArea(i) \/ HandleRequest(i)
  PROVE  Registered'
  <1> USE DEF Registered
  <1> DEFINE t == thread[i]
  <1>1. t \in Threads /\ t.at \in {"size", "loop"} /\ Live(i)
    BY DEF SizeArea, HandleRequest, ThreadAt, Live, Shape
  <1>2. PICK at \in {"open", "loop", "unlink"}, step \in 1 .. 4 :
          thread' = [thread EXCEPT ![i] = [t EXCEPT !.at = at, !.step = step]]
    <2>1. CASE SizeArea(i)
      BY <2>1 DEF SizeArea
    <2>2. CASE HandleRequest(i)
      <3>1. PICK at \in {"loop", "unlink"} : thread' = [thread EXCEPT ![i].at = at]
        BY <2>2 DEF HandleRequest
      <3>2. [t EXCEPT !.at = at] = [t EXCEPT !.at = at, !.step = t.step] /\ t.step \in 1 .. 4
        BY <1>1 DEF Threads
      <3>3. thread' = [thread EXCEPT ![i] = [t EXCEPT !.at = at]]
        BY <3>1
      <3> QED
        BY <3>2, <3>3
    <2> QED
      BY <2>1, <2>2
  <1> DEFINE u == [t EXCEPT !.at = at, !.step = step]
  <1>3. u \in Threads /\ u.at = at /\ u.name = t.name /\ u.has = t.has
    <2>1. at \in ThreadStates
      BY DEF ThreadStates
    <2>2. t \in Threads
      BY <1>1
    <2> HIDE DEF t
    <2> QED
      BY <2>1, <2>2 DEF Threads
  <1>4. /\ thread' = [thread EXCEPT ![i] = u]
        /\ UNCHANGED <<server, listener, poolRecord, started, client, named>>
    BY <1>2 DEF SizeArea, HandleRequest
  <1> HIDE DEF u
  <1>5. Shape'
    BY <1>3, <1>4 DEF Shape
  <1>6. Requests'
    BY <1>4 DEF Requests
  <1>7. Numbers' /\ CountExact'
    BY <1>1, <1>3, <1>4, ThreadGoesOn
  <1>8. Creators'
    BY <1>1, <1>3, <1>4, SameHandles DEF Shape
  <1> QED
    BY <1>5, <1>6, <1>7, <1>8

\* The session that is counted out is one of those counted.
LEMMA CountOutRegisters ==
  ASSUME Registered, NEW i \in Sessions, CountOut(i)
  PROVE  Registered'
  <1> USE DEF Registered
  <1> DEFINE t == thread[i]
             p == t.name[1]
             u == [at |-> "ended", step |-> t.step, name |-> t.name, has |-> t.has]
  <1>1. t \in Threads /\ t.at = "count" /\ Live(i) /\ t.name \in Names /\ server.up
    BY DEF CountOut, ThreadAt, Live, Shape, Numbers
  <1>2. p \in Pool
    BY <1>1 DEF Names
  <1>3. u \in Threads /\ u = [t EXCEPT !.at = "ended"]
    BY <1>1 DEF Threads, ThreadStates
  <1>4. /\ thread' = [thread EXCEPT ![i] = u]
        /\ UNCHANGED <<server, listener, started, client, named>>
    BY <1>3 DEF CountOut
  <1>5. \A j \in Sessions : /\ thread'[j].name = thread[j].name
                            /\ thread'[j].at = "none" <=> thread[j].at = "none"
                            /\ Live(j)' <=> Live(j) /\ j # i
    BY <1>1, <1>4 DEF Live, Shape
  <1>6. \A q : LiveOf(q)' = LiveOf(q) \ {i}
    BY <1>5 DEF LiveOf
  <1>7. i \in LiveOf(p) /\ \A q : i \in LiveOf(q) => q = p
    BY <1>1 DEF LiveOf
  <1> HIDE DEF p
  <1>8. Cardinality(LiveOf(p)) \in Nat \ {0}
    BY <1>7, Countable, FS_EmptySet
  <1>9. poolRecord[p].live = Cardinality(LiveOf(p))
    BY <1>1, <1>2 DEF CountExact, LiveOf
  <1>10. poolRecord' = [poolRecord EXCEPT ![p] = [live |-> poolRecord[p].live - 1,
                                                  next |-> poolRecord[p].next]]
    <2>1. poolRecord' = [poolRecord EXCEPT ![p].live = @ - 1]
      BY DEF CountOut, p
    <2>2. poolRecord[p] \in [live : Nat, next : Nat]
      BY <1>2 DEF Shape
    <2>3. [poolRecord[p] EXCEPT !.live = @ - 1]
            = [live |-> poolRecord[p].live - 1, next |-> poolRecord[p].next]
      BY <2>2
    <2> QED
      BY <2>1, <2>3
  <1>11. \A q \in Pool : /\ poolRecord'[q].next = poolRecord[q].next
                         /\ poolRecord'[q].live = Cardinality(LiveOf(q)')
    <2> SUFFICES ASSUME NEW q \in Pool
                 PROVE  /\ poolRecord'[q].next = poolRecord[q].next
                        /\ poolRecord'[q].live = Cardinality(LiveOf(q)')
      OBVIOUS
    <2>1. Cardinality(LiveOf(q)') = IF q = p THEN Cardinality(LiveOf(p)) - 1
                                             ELSE Cardinality(LiveOf(q))
      <3>1. CASE q = p
        <4>1. Cardinality(LiveOf(p) \ {i}) = Cardinality(LiveOf(p)) - 1
          BY <1>7, Countable, FS_RemoveElement
        <4> QED
          BY <3>1, <4>1, <1>6
      <3>2. CASE q # p
        BY <3>2, <1>6, <1>7
      <3> QED
        BY <3>1, <3>2
    <2>2. poolRecord[q].live = Cardinality(LiveOf(q))
      BY <1>1 DEF CountExact, LiveOf
    <2> QED
      BY <2>1, <2>2, <1>2, <1>9, <1>10 DEF Shape
  <1>12. Shape'
    <2>1. poolRecord[p].live - 1 \in Nat /\ poolRecord[p].next \in Nat
      BY <1>2, <1>8, <1>9 DEF Shape
    <2> QED
      BY <2>1, <1>2, <1>3, <1>4, <1>10 DEF Shape
  <1>13. Requests'
    BY <1>4 DEF Requests
  <1>14. Numbers'
    <2>1. \A j \in Sessions : thread'[j].at # "none" => thread'[j].name[1] \in Pool
      BY <1>5 DEF Numbers, Names
    <2> QED
      BY <2>1, <1>4, <1>5, <1>6, <1>11 DEF Numbers, Live
  <1>15. CountExact'
    BY <1>11 DEF CountExact, LiveOf
  <1>16. Creators'
    BY <1>1, <1>3, <1>4, SameHandles DEF Shape
  <1> QED
    BY <1>12, <1>13, <1>14, <1>15, <1>16

\* Every step of a session's thread keeps the registration.
LEMMA ThreadRegisters ==
  ASSUME Registered, NEW i \in Sessions, ThreadStep(i)
  PROVE  Registered'
  BY OpenRegisters, UnlinkRegisters, SizeAndHandleRegister, CountOutRegisters DEF ThreadStep

\* What ClientOpen does to the client.
LEMMA Finding ==
  ASSUME Shape, NEW c \in Client, ClientOpen(c), client[c].name \in Names
  PROVE  LET b == client[c]
             r == Order[b.step]
             o == named[r][b.name]
             d == client'[c]
         IN /\ r \in Resources /\ o \in Sessions
            /\ d \in Clients /\ d.name = b.name /\ d.session = b.session /\ d.pool = b.pool
            /\ d.has = [b.has EXCEPT ![r] = o]
            /\ IF b.step = 4 THEN d.at = "attach" /\ d.step = 1
                             ELSE d.at = "open" /\ d.step = b.step + 1
            /\ client' = [client EXCEPT ![c] = d]
  <1> DEFINE b == client[c]
             r == Order[b.step]
             o == named[r][b.name]
             h == [b EXCEPT !.has[r] = o]
  <1>1. b \in Clients /\ b.at = "open" /\ o # Nobody
    BY DEF Shape, ClientOpen, ClientAt
  <1>2. b.step \in 1 .. 4
    BY <1>1 DEF Clients
  <1>3. r \in Resources
    BY <1>2, OrderFacts
  <1>4. o \in Sessions
    BY <1>1, <1>3 DEF Shape, Objects
  <1>5. client' = [client EXCEPT ![c] = Following(h, "attach")]
    BY DEF ClientOpen
  <1>6. client'[c] = Following(h, "attach")
    BY <1>5 DEF Shape
  <1> HIDE DEF b, r, o
  <1>7. /\ h \in Clients /\ h.name = b.name /\ h.session = b.session /\ h.pool = b.pool
        /\ h.has = [b.has EXCEPT ![r] = o] /\ h.at = "open" /\ h.step = b.step
    BY <1>1, <1>3, <1>4 DEF Clients, Objects
  <1>8. "attach" \in ClientStates
    BY DEF ClientStates
  <1> HIDE DEF h
  <1>9. LET d == Following(h, "attach")
        IN /\ d \in Clients /\ d.name = b.name /\ d.session = b.session /\ d.pool = b.pool
           /\ d.has = [b.has EXCEPT ![r] = o]
           /\ IF b.step = 4 THEN d.at = "attach" /\ d.step = 1
                            ELSE d.at = "open" /\ d.step = b.step + 1
    BY <1>7, <1>8, ClientFollowing
  <1> QED
    BY <1>3, <1>4, <1>5, <1>6, <1>9 DEF b, r, o

\* What the other steps of a client do to it.
LEMMA ClientMoves ==
  ASSUME Shape, NEW c \in Client, NEW at \in ClientStates,
         client' = [client EXCEPT ![c].at = at]
  PROVE  LET b == client[c]
             d == client'[c]
         IN /\ d \in Clients /\ d.name = b.name /\ d.session = b.session /\ d.pool = b.pool
            /\ d.has = b.has /\ d.step = b.step /\ d.at = at
            /\ client' = [client EXCEPT ![c] = d]
  <1> DEFINE b == client[c]
  <1>1. b \in Clients
    BY DEF Shape
  <1>2. client' = [client EXCEPT ![c] = [b EXCEPT !.at = at]]
    OBVIOUS
  <1>3. client'[c] = [b EXCEPT !.at = at]
    BY DEF Shape
  <1> HIDE DEF b
  <1>4. LET d == [b EXCEPT !.at = at]
        IN /\ d \in Clients /\ d.name = b.name /\ d.session = b.session /\ d.pool = b.pool
           /\ d.has = b.has /\ d.step = b.step /\ d.at = at
    BY <1>1 DEF Clients
  <1> QED
    BY <1>2, <1>3, <1>4 DEF b

\* What a client does touches no thread, no record and no name.
LEMMA ClientRegisters ==
  ASSUME Registered, NEW c \in Client,
         \/ \E p \in Pool : Ask(c, p)
         \/ ClientStep(c)
         \/ \E ctrl \in {"SET", "CLOSE"} : Take(c, ctrl)
  PROVE  Registered'
  <1> USE DEF Registered
  <1> DEFINE b == client[c]
             d == client'[c]
  <1>1. b \in Clients
    BY DEF Shape
  <1>2. UNCHANGED <<server, listener, poolRecord, started, thread, named>>
    BY DEF Ask, ClientStep, ClientOpen, Attach, Take, PostRequest, ClientAt
  <1>3. /\ client' = [client EXCEPT ![c] = d] /\ d \in Clients
        /\ d.at = "asked" => d.pool \in Pool /\ d.step = 1
        /\ d.at # "new" /\ b.at # "asked"
        /\ d.at = "open" => d.name \in Names
    <2>1. ASSUME NEW p \in Pool, Ask(c, p)
          PROVE  <1>3!1 /\ d.at = "asked" /\ b.at = "new" /\ d.pool = p /\ d.step = 1
      <3>1. b.at = "new" /\ b.step = 1
        BY <2>1 DEF Ask, ClientAt, Requests
      <3>2. client' = [client EXCEPT ![c] = [b EXCEPT !.at = "asked", !.pool = p]]
        BY <2>1 DEF Ask
      <3>3. d = [b EXCEPT !.at = "asked", !.pool = p]
        BY <3>2 DEF Shape
      <3>4. "asked" \in ClientStates
        BY DEF ClientStates
      <3> HIDE DEF b, d
      <3> QED
        BY <3>1, <3>2, <3>3, <3>4, <1>1 DEF Clients
    <2>2. CASE ClientOpen(c)
      <3>1. b.at = "open" /\ b.name \in Names
        BY <2>2 DEF ClientOpen, ClientAt, Requests
      <3> QED
        BY <2>2, <3>1, Finding
    <2>3. ASSUME NEW at \in {"using", "closing", "ready", "gone"},
                 client' = [client EXCEPT ![c].at = at], b.at # "asked"
          PROVE  <1>3!1 /\ <1>3!2 /\ <1>3!3 /\ <1>3!4
      BY <2>3, ClientMoves DEF ClientStates
    <2>4. CASE Attach(c) \/ PostRequest(c) \/ \E ctrl \in {"SET", "CLOSE"} : Take(c, ctrl)
      BY <2>3, <2>4 DEF Attach, PostRequest, Take, ClientAt
    <2> QED
      BY <2>1, <2>2, <2>4 DEF ClientStep
  <1> HIDE DEF d
  <1>4. Shape'
    BY <1>2, <1>3 DEF Shape
  <1>5. Requests'
    BY <1>2, <1>3 DEF Requests, Shape
  <1>6. Numbers' /\ CountExact'
    BY <1>2, ThreadsRest
  <1>7. Creators'
    BY <1>2 DEF Creators
  <1> QED
    BY <1>4, <1>5, <1>6, <1>7

\* A stop leaves no live session; the names stay with their creators.
LEMMA StopRegisters ==
  ASSUME Registered, Stop
  PROVE  Registered'
  <1> USE DEF Registered
  <1>1. \A i \in Sessions : /\ thread'[i].name = thread[i].name
                            /\ thread'[i].has = thread[i].has
                            /\ thread'[i].at = IF thread[i].at = "none" THEN "none" ELSE "killed"
    BY DEF Stop, Shape, Threads
  <1>2. Shape'
    <2>1. server' \in [up : BOOLEAN, restarts : Nat]
      BY DEF Stop, Shape
    <2>2. thread' \in [Sessions -> Threads]
      <3> SUFFICES ASSUME NEW t \in Threads PROVE [t EXCEPT !.at = "killed"] \in Threads
        BY DEF Stop, Shape
      <3> QED
        BY DEF Threads, ThreadStates
    <2>3. client' \in [Client -> Clients]
      <3> SUFFICES ASSUME NEW b \in Clients PROVE [b EXCEPT !.at = "gone"] \in Clients
        BY DEF Stop, Shape
      <3> QED
        BY DEF Clients, ClientStates
    <2> QED
      BY <2>1, <2>2, <2>3 DEF Stop, Shape, Idle
  <1>3. Requests'
    BY DEF Stop, Requests, Idle, Shape, Clients
  <1>4. \A i \in Sessions : ~Live(i)'
    BY <1>1 DEF Live
  <1>5. Numbers'
    BY <1>1, <1>4 DEF Stop, Numbers, Idle
  <1>6. CountExact'
    BY DEF CountExact, Stop, Shape
  <1>7. Creators'
    <2>1. UNCHANGED named
      BY DEF Stop
    <2>2. \A r \in Resources : \A n \in Names : named[r][n] \in Objects
      BY DEF Shape
    <2>3. \A i \in Sessions : \A r \in Resources : thread[i].has[r] \in Objects
      BY DEF Shape, Threads
    <2> QED
      BY <2>1, <2>2, <2>3, <1>1 DEF Creators, Objects
  <1> QED
    BY <1>2, <1>3, <1>5, <1>6, <1>7

\* The new server counts from 0, and no session is live.
LEMMA StartRegisters ==
  ASSUME Registered, Start
  PROVE  Registered'
  <1> USE DEF Registered
  <1>1. \A i \in Sessions : ~Live(i) /\ ~Live(i)'
    BY DEF Start, Numbers, Live
  <1>2. \A p : LiveOf(p)' = {} /\ LiveOf(p) = {}
    BY <1>1 DEF LiveOf
  <1>3. Shape'
    BY DEF Start, Shape
  <1>4. Requests'
    BY DEF Start, Requests
  <1>5. Numbers'
    BY <1>1, <1>2 DEF Start, Numbers, Shape
  <1>6. CountExact'
    <2>1. \A p : Cardinality(LiveOf(p)') = 0
      BY <1>2, FS_EmptySet
    <2> QED
      BY <2>1 DEF Start, CountExact, LiveOf
  <1>7. Creators'
    BY DEF Start, Creators
  <1> QED
    BY <1>3, <1>4, <1>5, <1>6, <1>7

\* A step that changes nothing keeps the registration.
LEMMA StutterRegisters ==
  ASSUME Registered, UNCHANGED vars
  PROVE  Registered'
  BY DEF Registered, Shape, Requests, Numbers, CountExact, Creators, Live, LiveOf, vars

\* Sessions, their numbers and counts, and the names of their objects agree, also
\* after restarts and although the listener looks outside the lock.
THEOREM Registration == Spec => []Registered
  <1>1. Init => Registered
    BY InitRegistered
  <1>2. Registered /\ [Next]_vars => Registered'
    BY AcceptRegisters, CheckRegisters, AddRegisters, ThreadRegisters, ClientRegisters,
       StopRegisters, StartRegisters, StutterRegisters DEF Next, ListenerStep
  <1> QED
    BY <1>1, <1>2, PTL DEF Spec

\* Live sessions have different names, and whoever opened an object has the name
\* of its creator.
THEOREM SessionsApart == Spec => []Apart
  <1>1. Registered => Apart
    BY DEF Registered, Shape, Threads, Numbers, Creators, Apart, Live
  <1> QED
    BY <1>1, Registration, PTL

\* The count of a pool is exact, whatever the listener saw when it looked.
THEOREM Counts == Spec => []CountExact
  <1>1. Registered => CountExact
    BY DEF Registered
  <1> QED
    BY <1>1, Registration, PTL

-----------------------------------------------------------------------------
\* At the start no session is there and no name is taken.
LEMMA InitServed == Init => FirstServed
  <1> SUFFICES ASSUME Init PROVE FirstInv
    BY DEF FirstServed
  <1>1. ObjectShape
    BY DEF Init, ObjectShape
  <1>2. \A i \in Sessions : ThreadInv(i)
    BY DEF Init, ThreadInv, Opened, Stands, Semaphores
  <1>3. NamesStand
    BY DEF Init, NamesStand
  <1>4. (\A c \in Client : ClientInv(c)) /\ OneClient
    BY DEF Init, ClientInv, OneClient, Served
  <1> QED
    BY <1>1, <1>2, <1>3, <1>4 DEF FirstInv

\* A session whose name stands is live, and it is the only one of its name.
LEMMA StandsAlone ==
  ASSUME Registered, NEW i \in Sessions, NEW j \in Sessions, NEW r \in Resources,
         Live(i), Stands(thread[j], r), thread[i].name = thread[j].name
  PROVE  i = j
  BY DEF Registered, Numbers, Live, Stands, Opened

\* The listener's look at the request and the record touches no object.
LEMMA ListenerServes ==
  ASSUME Registered, FirstInv, (\E c \in Client : Accept(c)) \/ CheckRecord
  PROVE  FirstInv'
  <1>1. UNCHANGED <<thread, named, sem, area>> /\ \A c \in Client : client'[c] = client[c]
    BY DEF Accept, CheckRecord, listenerOnly
  <1> QED
    BY <1>1 DEF FirstInv, ObjectShape, ThreadInv, NamesStand, ClientInv, OneClient

\* A new session has opened nothing, and its client is nobody else's.
LEMMA AddServes ==
  ASSUME Registered, FirstInv, AddSession
  PROVE  FirstInv'
  <1> USE DEF Registered, FirstInv
  <1>0. PICK c, i : c = listener.client /\ i = started + 1
    OBVIOUS
  <1>1. c \in Client /\ client[c].step = 1 /\ i \in Sessions /\ thread[i].at = "none"
    BY <1>0, BoundsAssumption DEF Requests, AddSession, Shape, Sessions, Numbers
  <1>2. PICK n : /\ thread' = [thread EXCEPT ![i] = [at |-> "open", step |-> 1, name |-> n,
                                                    has |-> NoHandles]]
                 /\ client' = [client EXCEPT ![c] = [@ EXCEPT !.at = "open", !.name = n,
                                                             !.session = i]]
                 /\ UNCHANGED <<named, sem, area>>
    BY <1>0 DEF AddSession
  <1>3. /\ client'[c].at = "open" /\ client'[c].name = n /\ client'[c].session = i
        /\ client'[c].step = 1
        /\ \A d \in Client \ {c} : client'[d] = client[d]
    <2> DEFINE b == client[c]
    <2>1. b \in Clients
      BY <1>1 DEF Shape
    <2>2. client'[c] = [b EXCEPT !.at = "open", !.name = n, !.session = i]
      BY <1>1, <1>2 DEF Shape
    <2>3. \A d \in Client \ {c} : client'[d] = client[d]
      BY <1>2 DEF Shape
    <2>4. b.step = 1
      BY <1>1
    <2> HIDE DEF b
    <2> QED
      BY <2>1, <2>2, <2>3, <2>4 DEF Clients
  <1>4. /\ thread'[i] = [at |-> "open", step |-> 1, name |-> n, has |-> NoHandles]
        /\ \A j \in Sessions \ {i} : thread'[j] = thread[j]
    BY <1>1, <1>2 DEF Shape
  <1>5. \A r \in Resources : ~Opened(thread'[i], r) /\ ~Stands(thread'[i], r)
    BY <1>4, OrderFacts DEF Opened, Stands
  <1>6. ObjectShape'
    BY <1>2 DEF ObjectShape
  <1>7. ASSUME NEW j \in Sessions PROVE ThreadInv(j)'
    <2>1. CASE j = i
      BY <2>1, <1>1, <1>2, <1>4, <1>5 DEF ThreadInv
    <2>2. CASE j # i
      BY <2>2, <1>2, <1>4 DEF ThreadInv
    <2> QED
      BY <2>1, <2>2
  <1>8. NamesStand'
    <2> SUFFICES ASSUME NEW r \in Resources, NEW m \in Names, named'[r][m] # Nobody
                 PROVE  Stands(thread'[named'[r][m]], r)
      BY DEF NamesStand
    <2>1. named'[r][m] = named[r][m] /\ named[r][m] \in Sessions
      BY <1>2 DEF Shape, Objects
    <2>2. Stands(thread[named[r][m]], r)
      BY <2>1 DEF NamesStand
    <2>3. named[r][m] # i
      BY <2>2, <1>1 DEF Stands, Opened
    <2> QED
      BY <2>1, <2>2, <2>3, <1>4
  <1>9. ASSUME NEW d \in Client \ {c}, client'[d].at \in Served
        PROVE  ClientInv(d)' /\ client'[d].session # i
    <2>1. client[d].at \in Served /\ client'[d] = client[d]
      BY <1>3, <1>9
    <2>2. client[d].session \in Sessions /\ client[d].session # i
      BY <2>1, <1>1 DEF ClientInv
    <2> QED
      BY <2>1, <2>2, <1>2, <1>4 DEF ClientInv
  <1>10. ClientInv(c)'
    <2>1. thread'[i].at = "open" /\ thread'[i].name = n
      BY <1>4
    <2>2. sem["request"][i] = 0 /\ sem["Server"][i] <= 1 /\ area[i].ctrl = "SET"
      BY <1>1 DEF ThreadInv
    <2>3. \A r \in Resources : ~(Position[r] < 1)
      BY OrderFacts
    <2>4. sem["Server"][i] \in Nat
      BY <1>1 DEF ObjectShape, Semaphores
    <2> QED
      BY <2>1, <2>2, <2>3, <2>4, <1>1, <1>2, <1>3 DEF ClientInv
  <1>11. \A d \in Client : ClientInv(d)'
    <2> SUFFICES ASSUME NEW d \in Client, client'[d].at \in Served PROVE ClientInv(d)'
      BY DEF ClientInv
    <2> QED
      BY <1>9, <1>10
  <1>12. OneClient'
    BY <1>3, <1>9 DEF OneClient
  <1> QED
    BY <1>6, <1>7, <1>8, <1>11, <1>12

\* In the first run a thread finds none of its names taken: what stands under it
\* would be the object of another live session of the same name.
LEMMA NamesAreFree ==
  ASSUME Registered, FirstInv, NEW i \in Sessions, ThreadOpen(i)
  PROVE  named[Order[thread[i].step]][thread[i].name] = Nobody
  <1> USE DEF Registered, FirstInv
  <1> DEFINE r == Order[thread[i].step]
             n == thread[i].name
             o == named[r][n]
  <1> SUFFICES ASSUME o # Nobody PROVE FALSE
    OBVIOUS
  <1>1. thread[i].at = "open" /\ Live(i) /\ n \in Names /\ thread[i].step \in 1 .. 4
    BY DEF ThreadOpen, ThreadAt, Live, Numbers, Shape, Threads
  <1>2. r \in Resources /\ Position[r] = thread[i].step
    BY <1>1, OrderFacts
  <1>3. o \in Sessions /\ thread[o].name = n
    BY <1>1, <1>2 DEF Shape, Objects, Creators
  <1>4. Stands(thread[o], r)
    BY <1>1, <1>2 DEF NamesStand
  <1>5. o = i
    BY <1>1, <1>2, <1>3, <1>4, StandsAlone
  <1> QED
    BY <1>1, <1>2, <1>4, <1>5 DEF Stands, Opened

\* A thread creates its own object, which stands under its name from now on.
LEMMA OpenServes ==
  ASSUME Registered, FirstInv, NEW i \in Sessions, ThreadOpen(i)
  PROVE  FirstInv'
  <1> USE DEF Registered, FirstInv
  <1>1. PICK r \in Resources, n \in Names : r = Order[thread[i].step] /\ n = thread[i].name
    BY OrderFacts DEF ThreadOpen, ThreadAt, Numbers, Shape, Threads
  <1> DEFINE t == thread[i]
             u == thread'[i]
  <1>2. t.at = "open" /\ Live(i) /\ t.step \in 1 .. 4 /\ Position[r] = t.step
    BY <1>1, OrderFacts DEF ThreadOpen, ThreadAt, Live, Shape, Threads
  <1>3. named[r][n] = Nobody
    BY <1>1, NamesAreFree
  <1>4. /\ u \in Threads /\ u.name = n /\ u.has = [t.has EXCEPT ![r] = i]
        /\ IF t.step = 1 THEN u.at = "size" /\ u.step = 1
           ELSE IF t.step = 4 THEN u.at = "loop" /\ u.step = 1
           ELSE u.at = "open" /\ u.step = t.step + 1
        /\ thread' = [thread EXCEPT ![i] = u]
        /\ named' = [named EXCEPT ![r][n] = i]
    BY <1>1, <1>3, Opening
  <1>5. /\ sem' = IF r \in Semaphores THEN [sem EXCEPT ![r][i] = Initially(r)] ELSE sem
        /\ UNCHANGED <<client, area>>
    BY <1>1, <1>3 DEF ThreadOpen
  <1>6. t \in Threads /\ \A j \in Sessions \ {i} : thread'[j] = thread[j]
    BY <1>4 DEF Shape
  <1>7. \A q \in Resources : Opened(u, q) <=> Opened(t, q) \/ q = r
    BY <1>2, <1>4, OrderFacts DEF Opened
  <1>8. \A q \in Resources : Stands(u, q) <=> Stands(t, q) \/ q = r
    BY <1>2, <1>4, <1>7 DEF Stands
  <1>9. /\ ObjectShape'
        /\ \A j \in Sessions \ {i} : \A q \in Semaphores : sem'[q][j] = sem[q][j]
        /\ sem'["request"][i] = 0 /\ sem'["Server"][i] <= 1
        /\ IF r = "Server" THEN sem'["Server"][i] = 1 ELSE sem'["Server"][i] = sem["Server"][i]
    BY <1>2, <1>5 DEF ObjectShape, Initially, Semaphores, ThreadInv
  <1> HIDE DEF u, t
  <1>10. ThreadInv(i)'
    <2>1. \A q \in Resources : Opened(u, q) => u.has[q] = i
      BY <1>1, <1>4, <1>6, <1>7 DEF ThreadInv, Threads, t
    <2>2. \A q \in Resources : Stands(u, q) => named'[q][u.name] = i
      BY <1>1, <1>4, <1>8 DEF ThreadInv, Shape, t
    <2>3. u.at = "loop" \/ (u.at = "open" /\ u.step > 1) => area[i].sized
      BY <1>2, <1>4 DEF ThreadInv, t
    <2>4. u.at = "open" /\ u.step > 3 => sem'["Server"][i] = 1
      <3> SUFFICES ASSUME u.at = "open", u.step > 3 PROVE sem'["Server"][i] = 1
        OBVIOUS
      <3>1. t.step = 3
        BY <1>2, <1>4
      <3>2. r = Order[3] /\ Order[3] = "Server"
        BY <3>1, <1>2, OrderFacts DEF Order
      <3> QED
        BY <3>2, <1>9
    <2>5. area[i].ctrl = "SET"
      BY <1>2 DEF ThreadInv, t
    <2>6. u.at \in {"size", "loop", "open"} /\ (u.at \in {"size", "loop"} => u.step = 1)
      BY <1>4
    <2> QED
      BY <2>1, <2>2, <2>3, <2>4, <2>5, <2>6, <1>5, <1>9 DEF ThreadInv, u
  <1>11. ASSUME NEW j \in Sessions, j # i PROVE ThreadInv(j)'
    <2>1. \A q \in Resources : Stands(thread[j], q) => named'[q][thread[j].name] = j
      <3> SUFFICES ASSUME NEW q \in Resources, Stands(thread[j], q)
                   PROVE  named'[q][thread[j].name] = j
        OBVIOUS
      <3>1. thread[j].name # n
        BY <1>1, <1>2, <1>11, StandsAlone
      <3>2. named[q][thread[j].name] = j
        BY DEF ThreadInv
      <3>3. thread[j].name \in Names
        BY DEF Stands, Opened, Numbers
      <3> QED
        BY <3>1, <3>2, <3>3, <1>4 DEF Shape
    <2>2. ThreadInv(j) /\ thread'[j] = thread[j]
      BY <1>6, <1>11
    <2> QED
      BY <2>1, <2>2, <1>5, <1>9, <1>11 DEF ThreadInv, Semaphores
  <1>12. NamesStand'
    <2> SUFFICES ASSUME NEW q \in Resources, NEW m \in Names, named'[q][m] # Nobody
                 PROVE  Stands(thread'[named'[q][m]], q)
      BY DEF NamesStand
    <2>1. CASE q = r /\ m = n
      BY <2>1, <1>4, <1>8 DEF Shape, u
    <2>2. CASE ~(q = r /\ m = n)
      <3>1. named'[q][m] = named[q][m] /\ named[q][m] \in Sessions
        BY <2>2, <1>4 DEF Shape, Objects
      <3>2. Stands(thread[named[q][m]], q)
        BY <3>1 DEF NamesStand
      <3> QED
        BY <3>1, <3>2, <1>6, <1>8 DEF t, u
    <2> QED
      BY <2>1, <2>2
  <1>13. ASSUME NEW c \in Client, client'[c].at \in Served PROVE ClientInv(c)'
    <2> DEFINE b == client[c]
               x == client[c].session
    <2>1. client' = client /\ b.at \in Served /\ ClientInv(c) /\ x \in Sessions
      BY <1>5, <1>13 DEF ClientInv
    <2>2. CASE x # i
      BY <2>1, <2>2, <1>5, <1>6, <1>9 DEF ClientInv, Semaphores
    <2>3. CASE x = i
      <3>1. b.at = "open"
        BY <2>1, <2>3, <1>2 DEF ClientInv, Opened, t
      <3>2. u.at \in {"open", "size", "loop"}
        BY <1>4
      <3>3. \A q \in Resources : Position[q] < b.step => b.has[q] = i /\ Opened(u, q)
        BY <2>1, <2>3, <1>7 DEF ClientInv, t
      <3>4. b.name = u.name /\ area[i].ctrl = "SET"
        BY <2>1, <2>3, <3>1, <1>1, <1>4 DEF ClientInv
      <3>5. sem'["request"][i] + sem'["Server"][i] <= 1
        BY <1>9 DEF ObjectShape, Semaphores
      <3> QED
        BY <2>1, <2>3, <3>1, <3>2, <3>3, <3>4, <3>5, <1>5, <1>9 DEF ClientInv, u
    <2> QED
      BY <2>2, <2>3
  <1>14. OneClient'
    BY <1>5 DEF OneClient
  <1> QED
    BY <1>9, <1>10, <1>11, <1>12, <1>13, <1>14 DEF ClientInv

\* The thread gives its own area its size.
LEMMA SizeServes ==
  ASSUME Registered, FirstInv, NEW i \in Sessions, SizeArea(i)
  PROVE  FirstInv'
  <1> USE DEF Registered, FirstInv
  <1> DEFINE t == thread[i]
             u == thread'[i]
  <1>1. t \in Threads /\ t.at = "size" /\ t.step = 1
    BY DEF SizeArea, ThreadAt, Shape, ThreadInv
  <1>2. t.has["shm"] = i
    BY <1>1 DEF ThreadInv, Opened, Resources
  <1>3. /\ thread' = [thread EXCEPT ![i] = [t EXCEPT !.at = "open", !.step = 2]]
        /\ area' = [area EXCEPT ![i].sized = TRUE]
        /\ UNCHANGED <<client, named, sem>>
    BY <1>2 DEF SizeArea
  <1>4. u = [t EXCEPT !.at = "open", !.step = 2] /\ \A j \in Sessions \ {i} : thread'[j] = thread[j]
    BY <1>3 DEF Shape
  <1>5. /\ ObjectShape' /\ area'[i].sized /\ area'[i].ctrl = area[i].ctrl
        /\ \A j \in Sessions \ {i} : area'[j] = area[j]
    BY <1>3 DEF ObjectShape
  <1> HIDE DEF t
  <1>6. u.at = "open" /\ u.step = 2 /\ u.name = t.name /\ u.has = t.has
    BY <1>1, <1>4 DEF Threads
  <1> HIDE DEF u
  <1>7. \A r \in Resources : Position[r] < 2 <=> r = "shm"
    BY DEF Position, Resources, Semaphores
  <1>8. \A r \in Resources : (Opened(u, r) <=> Opened(t, r)) /\ (Stands(u, r) <=> Stands(t, r))
    BY <1>1, <1>6, <1>7 DEF Opened, Stands
  <1>9. ThreadInv(i)'
    <2>1. ThreadInv(i)
      OBVIOUS
    <2> QED
      BY <2>1, <1>1, <1>3, <1>5, <1>6, <1>8 DEF ThreadInv, t, u
  <1>10. \A j \in Sessions : j # i => ThreadInv(j)'
    BY <1>3, <1>4, <1>5 DEF ThreadInv
  <1>11. NamesStand'
    <2> SUFFICES ASSUME NEW r \in Resources, NEW n \in Names, named[r][n] # Nobody
                 PROVE  Stands(thread'[named[r][n]], r)
      BY <1>3 DEF NamesStand
    <2>1. named[r][n] \in Sessions /\ Stands(thread[named[r][n]], r)
      BY DEF NamesStand, Shape, Objects
    <2> QED
      BY <2>1, <1>4, <1>8 DEF t, u
  <1>12. ASSUME NEW c \in Client, client'[c].at \in Served PROVE ClientInv(c)'
    <2>1. client' = client /\ ClientInv(c) /\ client[c].session \in Sessions
      BY <1>3, <1>12 DEF ClientInv
    <2>2. CASE client[c].session = i
      BY <2>1, <2>2, <1>3, <1>5, <1>6, <1>8 DEF ClientInv, t, u
    <2>3. CASE client[c].session # i
      BY <2>1, <2>3, <1>3, <1>4, <1>5 DEF ClientInv
    <2> QED
      BY <2>2, <2>3
  <1>13. OneClient'
    BY <1>3 DEF OneClient
  <1> QED
    BY <1>5, <1>9, <1>10, <1>11, <1>12, <1>13 DEF ClientInv

\* The thread stays in its loop for every client that has not posted its CLOSE.
LEMMA HandleServes ==
  ASSUME Registered, FirstInv, NEW i \in Sessions, HandleRequest(i)
  PROVE  FirstInv'
  <1> USE DEF Registered, FirstInv
  <1> DEFINE t == thread[i]
             u == thread'[i]
  <1>1. t \in Threads /\ t.at = "loop" /\ t.step = 1
    BY DEF HandleRequest, ThreadAt, Shape, ThreadInv
  <1>2. \A r \in Resources : t.has[r] = i
    BY <1>1 DEF ThreadInv, Opened
  <1>3. /\ sem["request"][i] > 0
        /\ sem' = [sem EXCEPT !["request"][i] = @ - 1, !["Server"][i] = @ + 1]
        /\ thread' = [thread EXCEPT ![i] = [t EXCEPT !.at =
                         IF area[i].ctrl = "CLOSE" THEN "unlink" ELSE "loop"]]
        /\ UNCHANGED <<client, named, area>>
    BY <1>2 DEF HandleRequest, Resources, Semaphores
  <1>4. /\ u = [t EXCEPT !.at = IF area[i].ctrl = "CLOSE" THEN "unlink" ELSE "loop"]
        /\ \A j \in Sessions \ {i} : thread'[j] = thread[j]
    BY <1>3 DEF Shape
  <1>5. /\ ObjectShape'
        /\ sem'["request"][i] = sem["request"][i] - 1
        /\ sem'["Server"][i] = sem["Server"][i] + 1
        /\ \A j \in Sessions \ {i} : /\ sem'["request"][j] = sem["request"][j]
                                    /\ sem'["Server"][j] = sem["Server"][j]
    BY <1>3 DEF ObjectShape, Semaphores
  <1> HIDE DEF t
  <1>6. /\ u.at = IF area[i].ctrl = "CLOSE" THEN "unlink" ELSE "loop"
        /\ u.step = 1 /\ u.name = t.name /\ u.has = t.has
    BY <1>1, <1>4 DEF Threads
  <1> HIDE DEF u
  <1>7. \A r \in Resources : Opened(t, r) /\ Stands(t, r) /\ Opened(u, r) /\ Stands(u, r)
    BY <1>1, <1>6, OrderFacts DEF Opened, Stands
  <1>8. ThreadInv(i)'
    <2>1. ThreadInv(i)
      OBVIOUS
    <2> QED
      BY <2>1, <1>1, <1>3, <1>6, <1>7 DEF ThreadInv, t, u
  <1>9. \A j \in Sessions : j # i => ThreadInv(j)'
    <2> SUFFICES ASSUME NEW j \in Sessions, j # i PROVE ThreadInv(j)'
      OBVIOUS
    <2>1. thread'[j] = thread[j] /\ ThreadInv(j)
      BY <1>4
    <2>2. /\ sem'["request"][j] = sem["request"][j] /\ sem'["Server"][j] = sem["Server"][j]
          /\ UNCHANGED <<named, area>>
      BY <1>3, <1>5
    <2> QED
      BY <2>1, <2>2 DEF ThreadInv
  <1>10. NamesStand'
    <2> SUFFICES ASSUME NEW r \in Resources, NEW n \in Names, named[r][n] # Nobody
                 PROVE  Stands(thread'[named[r][n]], r)
      BY <1>3 DEF NamesStand
    <2>1. named[r][n] \in Sessions /\ Stands(thread[named[r][n]], r)
      BY DEF NamesStand, Shape, Objects
    <2> QED
      BY <2>1, <1>4, <1>7 DEF u
  <1>11. ASSUME NEW c \in Client, client'[c].at \in Served PROVE ClientInv(c)'
    <2>1. client' = client /\ ClientInv(c) /\ client[c].session \in Sessions
      BY <1>3, <1>11 DEF ClientInv
    <2>2. CASE client[c].session = i
      <3>1. client[c].at = "ready"
        BY <2>1, <2>2, <1>3, <1>11 DEF ClientInv, Served
      <3>2. area[i].ctrl = "SET"
        BY <2>1, <2>2, <3>1 DEF ClientInv, Served
      <3>3. sem'["request"][i] + sem'["Server"][i] <= 1
        BY <2>1, <2>2, <3>1, <1>5 DEF ClientInv, Served, ObjectShape, Semaphores
      <3> QED
        BY <2>1, <2>2, <3>1, <3>2, <3>3, <1>3, <1>6, <1>7 DEF ClientInv, t, u
    <2>3. CASE client[c].session # i
      <3> DEFINE x == client[c].session
      <3>1. /\ thread'[x] = thread[x]
            /\ sem'["request"][x] = sem["request"][x] /\ sem'["Server"][x] = sem["Server"][x]
            /\ UNCHANGED area
        BY <2>1, <2>3, <1>3, <1>4, <1>5
      <3> QED
        BY <2>1, <3>1 DEF ClientInv
    <2> QED
      BY <2>2, <2>3
  <1>12. OneClient'
    BY <1>3 DEF OneClient
  <1> QED
    BY <1>5, <1>8, <1>9, <1>10, <1>11, <1>12 DEF ClientInv

\* A thread removes only names that stand for its own objects, when its client is
\* gone.
LEMMA UnlinkServes ==
  ASSUME Registered, FirstInv, NEW i \in Sessions, Unlink(i)
  PROVE  FirstInv'
  <1> USE DEF Registered, FirstInv
  <1>1. PICK r \in Resources, n \in Names : r = Order[thread[i].step] /\ n = thread[i].name
    BY OrderFacts DEF Unlink, ThreadAt, Numbers, Shape, Threads
  <1> DEFINE t == thread[i]
             u == thread'[i]
  <1>2. t \in Threads /\ t.at = "unlink" /\ Live(i) /\ t.step \in 1 .. 4 /\ Position[r] = t.step
    BY <1>1, OrderFacts DEF Unlink, ThreadAt, Live, Shape, Threads
  <1>3. /\ named' = [named EXCEPT ![r][n] = Nobody]
        /\ thread' = [thread EXCEPT ![i] = Following(t, "count")]
        /\ UNCHANGED <<client, sem, area>>
    BY <1>1 DEF Unlink
  <1>4. u = Following(t, "count") /\ \A j \in Sessions \ {i} : thread'[j] = thread[j]
    BY <1>3 DEF Shape
  <1>5. /\ u.name = n /\ u.has = t.has
        /\ IF t.step = 4 THEN u.at = "count" /\ u.step = 1
                         ELSE u.at = "unlink" /\ u.step = t.step + 1
    BY <1>1, <1>2, <1>4, ThreadFollowing DEF ThreadStates
  <1> HIDE DEF t, u
  <1>6. \A q \in Resources : q # r => Position[q] # Position[r]
    BY OrderFacts
  <1>7. \A q \in Resources : /\ Opened(t, q) /\ Opened(u, q)
                             /\ Stands(u, q) <=> Stands(t, q) /\ q # r
    BY <1>2, <1>5, <1>6, OrderFacts DEF Opened, Stands
  <1>8. ThreadInv(i)'
    <2>1. \A q \in Resources : u.has[q] = i
      BY <1>5, <1>7 DEF ThreadInv, t
    <2>2. \A q \in Resources : Stands(u, q) => named'[q][u.name] = i
      BY <1>1, <1>3, <1>5, <1>7 DEF ThreadInv, Shape, t
    <2> QED
      BY <2>1, <2>2, <1>3, <1>5 DEF ThreadInv, u
  <1>9. ASSUME NEW j \in Sessions, j # i PROVE ThreadInv(j)'
    <2>1. \A q \in Resources : Stands(thread[j], q) => named'[q][thread[j].name] = j
      <3> SUFFICES ASSUME NEW q \in Resources, Stands(thread[j], q)
                   PROVE  named'[q][thread[j].name] = j
        OBVIOUS
      <3>1. thread[j].name # n
        BY <1>1, <1>2, <1>9, StandsAlone
      <3>2. named[q][thread[j].name] = j
        BY DEF ThreadInv
      <3>3. thread[j].name \in Names
        BY DEF Stands, Opened, Numbers
      <3> QED
        BY <3>1, <3>2, <3>3, <1>3 DEF Shape
    <2> QED
      BY <2>1, <1>3, <1>4, <1>9 DEF ThreadInv
  <1>10. NamesStand'
    <2> SUFFICES ASSUME NEW q \in Resources, NEW m \in Names, named'[q][m] # Nobody
                 PROVE  Stands(thread'[named'[q][m]], q)
      BY DEF NamesStand
    <2>1. named'[q][m] = named[q][m] /\ ~(q = r /\ m = n) /\ named[q][m] \in Sessions
      BY <1>3 DEF Shape, Objects
    <2>2. Stands(thread[named[q][m]], q) /\ thread[named[q][m]].name = m
      BY <2>1 DEF NamesStand, Creators
    <2>3. CASE named[q][m] = i
      BY <2>1, <2>2, <2>3, <1>1, <1>7 DEF t, u
    <2>4. CASE named[q][m] # i
      BY <2>1, <2>2, <2>4, <1>4
    <2> QED
      BY <2>3, <2>4
  <1>11. ASSUME NEW c \in Client, client'[c].at \in Served PROVE ClientInv(c)'
    <2>1. client' = client /\ ClientInv(c) /\ client[c].session \in Sessions
      BY <1>3, <1>11 DEF ClientInv
    <2>2. client[c].session # i
      BY <2>1, <1>2, <1>11 DEF ClientInv, t
    <2> QED
      BY <2>1, <2>2, <1>3, <1>4 DEF ClientInv
  <1>12. OneClient' /\ ObjectShape'
    BY <1>3 DEF OneClient, ObjectShape
  <1> QED
    BY <1>8, <1>9, <1>10, <1>11, <1>12 DEF ClientInv

\* A thread that is counted out has no name left.
LEMMA CountOutServes ==
  ASSUME Registered, FirstInv, NEW i \in Sessions, CountOut(i)
  PROVE  FirstInv'
  <1> USE DEF Registered, FirstInv
  <1> DEFINE t == thread[i]
             u == thread'[i]
  <1>1. t \in Threads /\ t.at = "count"
    BY DEF CountOut, ThreadAt, Shape
  <1>2. /\ thread' = [thread EXCEPT ![i] = [t EXCEPT !.at = "ended"]]
        /\ UNCHANGED <<client, named, sem, area>>
    BY DEF CountOut
  <1>3. u = [t EXCEPT !.at = "ended"] /\ \A j \in Sessions \ {i} : thread'[j] = thread[j]
    BY <1>2 DEF Shape
  <1> HIDE DEF t
  <1>4. u.at = "ended" /\ u.has = t.has /\ u.name = t.name
    BY <1>1, <1>3 DEF Threads
  <1> HIDE DEF u
  <1>5. \A r \in Resources : Opened(t, r) /\ ~Stands(t, r) /\ ~Stands(u, r)
    BY <1>1, <1>4 DEF Opened, Stands
  <1>6. ThreadInv(i)'
    BY <1>1, <1>2, <1>4, <1>5 DEF ThreadInv, t, u
  <1>7. \A j \in Sessions : j # i => ThreadInv(j)'
    BY <1>2, <1>3 DEF ThreadInv
  <1>8. NamesStand'
    <2> SUFFICES ASSUME NEW r \in Resources, NEW n \in Names, named[r][n] # Nobody
                 PROVE  Stands(thread'[named[r][n]], r)
      BY <1>2 DEF NamesStand
    <2>1. named[r][n] \in Sessions /\ Stands(thread[named[r][n]], r)
      BY DEF NamesStand, Shape, Objects
    <2> QED
      BY <2>1, <1>3, <1>5 DEF t
  <1>9. ASSUME NEW c \in Client, client'[c].at \in Served PROVE ClientInv(c)'
    <2>1. client' = client /\ ClientInv(c) /\ client[c].session \in Sessions
      BY <1>2, <1>9 DEF ClientInv
    <2>2. client[c].session # i
      BY <2>1, <1>1, <1>9 DEF ClientInv, t
    <2> QED
      BY <2>1, <2>2, <1>2, <1>3 DEF ClientInv
  <1>10. OneClient' /\ ObjectShape'
    BY <1>2 DEF OneClient, ObjectShape
  <1> QED
    BY <1>6, <1>7, <1>8, <1>9, <1>10 DEF ClientInv

\* A client that is served found all of a session's objects: the thread is in its
\* loop.
LEMMA FoundAll ==
  ASSUME Registered, FirstInv, NEW c \in Client,
         client[c].at \in Served, client[c].at # "open"
  PROVE  LET s == client[c].session
         IN /\ s \in Sessions /\ thread[s].at = "loop" /\ thread[s].step = 1
            /\ \A r \in Resources : client[c].has[r] = s /\ thread[s].has[r] = s
  <1> DEFINE s == client[c].session
  <1>1. /\ s \in Sessions /\ thread[s].at \in {"open", "size", "loop"}
        /\ \A r \in Resources : client[c].has[r] = s /\ Opened(thread[s], r)
    BY DEF FirstInv, ClientInv
  <1>2. Opened(thread[s], "getback") /\ Opened(thread[s], "shm")
    BY <1>1 DEF Resources, Semaphores
  <1>3. thread[s].at = "loop"
    <2>1. thread[s] \in Threads
      BY <1>1 DEF Registered, Shape
    <2> HIDE DEF s
    <2>2. thread[s].step \in 1 .. 4
      BY <2>1 DEF Threads
    <2>3. Position["getback"] = 4
      BY DEF Position
    <2>4. thread[s].at # "size"
      BY <1>2 DEF Opened
    <2>5. thread[s].at # "open"
      BY <1>2, <2>2, <2>3 DEF Opened
    <2> QED
      BY <1>1, <2>4, <2>5
  <1>4. thread[s].step = 1 /\ \A r \in Resources : thread[s].has[r] = s
    BY <1>1, <1>3 DEF FirstInv, ThreadInv
  <1> QED
    BY <1>1, <1>3, <1>4

\* A client that changes neither threads nor names, and no object but, maybe, its
\* own session's.
LEMMA ClientServes ==
  ASSUME Registered, FirstInv, NEW c \in Client, UNCHANGED <<thread, named>>, ObjectShape',
         \A d \in Client \ {c} : client'[d] = client[d],
         \/ UNCHANGED <<sem, area>>
         \/ /\ client[c].at \in Served /\ thread[client[c].session].at = "loop"
            /\ \A i \in Sessions \ {client[c].session} :
                 /\ sem'["request"][i] = sem["request"][i] /\ sem'["Server"][i] = sem["Server"][i]
                 /\ area'[i] = area[i]
            /\ \A i \in Sessions : area'[i].sized = area[i].sized,
         client'[c].at \in Served =>
           /\ client[c].at \in Served /\ client'[c].session = client[c].session
           /\ ClientInv(c)'
  PROVE  FirstInv'
  <1> USE DEF FirstInv
  <1>1. ASSUME NEW i \in Sessions PROVE ThreadInv(i)'
    <2>1. CASE UNCHANGED <<sem, area>>
      BY <2>1 DEF ThreadInv
    <2>2. CASE ~UNCHANGED <<sem, area>>
      <3>1. CASE i = client[c].session
        BY <2>2, <3>1 DEF ThreadInv
      <3>2. CASE i # client[c].session
        BY <2>2, <3>2 DEF ThreadInv
      <3> QED
        BY <3>1, <3>2
    <2> QED
      BY <2>1, <2>2
  <1>2. NamesStand'
    BY DEF NamesStand
  <1>3. ASSUME NEW d \in Client, client'[d].at \in Served PROVE ClientInv(d)'
    <2>1. CASE d = c
      BY <2>1, <1>3
    <2>2. CASE d # c
      <3> DEFINE x == client[d].session
      <3>1. client'[d] = client[d] /\ client[d].at \in Served /\ ClientInv(d) /\ x \in Sessions
        BY <2>2, <1>3 DEF ClientInv
      <3>2. /\ sem'["request"][x] = sem["request"][x] /\ sem'["Server"][x] = sem["Server"][x]
            /\ area'[x] = area[x]
        BY <2>2, <3>1 DEF OneClient
      <3> QED
        BY <3>1, <3>2 DEF ClientInv
    <2> QED
      BY <2>1, <2>2
  <1>4. OneClient'
    BY DEF OneClient
  <1> QED
    BY <1>1, <1>2, <1>3, <1>4 DEF ClientInv

\* A client that asks holds nothing yet.
LEMMA AskServes ==
  ASSUME Registered, FirstInv, NEW c \in Client, NEW p \in Pool, Ask(c, p)
  PROVE  FirstInv'
  <1> DEFINE b == client[c]
  <1>1. /\ b \in Clients /\ client' = [client EXCEPT ![c] = [b EXCEPT !.at = "asked", !.pool = p]]
        /\ UNCHANGED <<thread, named, sem, area>>
    BY DEF Ask, ClientAt, Registered, Shape
  <1>2. /\ client'[c] = [b EXCEPT !.at = "asked", !.pool = p]
        /\ \A d \in Client \ {c} : client'[d] = client[d]
    BY <1>1 DEF Registered, Shape
  <1> HIDE DEF b
  <1>3. client'[c].at = "asked"
    BY <1>1, <1>2 DEF Clients
  <1>4. ObjectShape'
    BY <1>1 DEF FirstInv, ObjectShape
  <1> QED
    BY <1>1, <1>2, <1>3, <1>4, ClientServes DEF Served

\* The client finds what its own session's thread has created: the object that
\* has the name is that of a live session with that name.
LEMMA FindServes ==
  ASSUME Registered, FirstInv, NEW c \in Client, ClientOpen(c)
  PROVE  FirstInv'
  <1> USE DEF Registered, FirstInv
  <1>1. PICK r \in Resources, x \in Sessions, n \in Names :
          r = Order[client[c].step] /\ x = client[c].session /\ n = client[c].name
    BY OrderFacts DEF ClientOpen, ClientAt, Shape, Clients, Requests, ClientInv, Served
  <1> DEFINE b == client[c]
             d == client'[c]
             o == named[r][n]
  <1>2. b.at = "open" /\ b.step \in 1 .. 4 /\ Position[r] = b.step /\ o # Nobody
    BY <1>1, OrderFacts DEF ClientOpen, ClientAt, Shape, Clients
  <1>3. /\ o \in Sessions /\ d \in Clients /\ d.name = b.name /\ d.session = b.session
        /\ d.has = [b.has EXCEPT ![r] = o]
        /\ IF b.step = 4 THEN d.at = "attach" /\ d.step = 1
                         ELSE d.at = "open" /\ d.step = b.step + 1
        /\ client' = [client EXCEPT ![c] = d]
    BY <1>1, Finding
  <1>4. UNCHANGED <<thread, named, sem, area>> /\ b \in Clients
    BY DEF ClientOpen, ClientAt, Shape
  <1>5. Stands(thread[o], r) /\ thread[o].name = n
    BY <1>2, <1>3 DEF NamesStand, Creators
  <1>6. ClientInv(c) /\ thread[x].name = n /\ Live(x)
    BY <1>1, <1>2 DEF ClientInv, Served, Live
  <1>7. o = x
    BY <1>3, <1>5, <1>6, StandsAlone
  <1>8. Opened(thread[x], r)
    BY <1>5, <1>7 DEF Stands
  <1> HIDE DEF b, d, o
  <1>9. \A q \in Resources : d.at # "open" \/ Position[q] < d.step =>
           d.has[q] = x /\ Opened(thread[x], q)
    <2> SUFFICES ASSUME NEW q \in Resources, d.at # "open" \/ Position[q] < d.step
                 PROVE  d.has[q] = x /\ Opened(thread[x], q)
      OBVIOUS
    <2>1. CASE q = r
      BY <2>1, <1>3, <1>4, <1>7, <1>8 DEF Clients
    <2>2. CASE q # r
      <3>1. Position[q] # Position[r] /\ Position[q] \in 1 .. 4
        BY <2>2, OrderFacts
      <3>2. Position[q] < b.step
        BY <3>1, <1>2, <1>3
      <3>3. b.has[q] = x /\ Opened(thread[x], q)
        BY <3>2, <1>1, <1>2, <1>6 DEF ClientInv, Served, b
      <3> QED
        BY <2>2, <3>3, <1>3, <1>4 DEF Clients
    <2> QED
      BY <2>1, <2>2
  <1>10. ClientInv(c)'
    <2>1. d.session = x /\ d.name = thread[x].name /\ d.at \in {"open", "attach"}
      BY <1>1, <1>3, <1>6 DEF b
    <2>2. /\ thread[x].at \in {"open", "size", "loop"} /\ area[x].ctrl = "SET"
          /\ sem["request"][x] = 0 /\ sem["request"][x] + sem["Server"][x] <= 1
      BY <1>1, <1>2, <1>6 DEF ClientInv, Served, b
    <2> QED
      BY <2>1, <2>2, <1>4, <1>9 DEF ClientInv, d
  <1>11. \A e \in Client \ {c} : client'[e] = client[e]
    BY <1>3 DEF Shape
  <1>12. client[c].at \in Served /\ client'[c].session = client[c].session /\ ObjectShape'
    BY <1>2, <1>3, <1>4 DEF Served, ObjectShape, b, d
  <1> QED
    BY <1>4, <1>10, <1>11, <1>12, ClientServes

\* Attaching moves no semaphore.
LEMMA AttachServes ==
  ASSUME Registered, FirstInv, NEW c \in Client, Attach(c)
  PROVE  FirstInv'
  <1> USE DEF Registered, FirstInv
  <1>1. /\ client[c].at = "attach" /\ client' = [client EXCEPT ![c].at = "ready"]
        /\ UNCHANGED <<thread, named, sem, area>>
    BY DEF Attach, ClientAt
  <1>2. /\ client'[c].name = client[c].name /\ client'[c].session = client[c].session
        /\ client'[c].has = client[c].has /\ client'[c].at = "ready"
    BY <1>1, ClientMoves DEF ClientStates
  <1>3. ClientInv(c)'
    BY <1>1, <1>2 DEF ClientInv, Served
  <1>4. \A e \in Client \ {c} : client'[e] = client[e]
    BY <1>1 DEF Shape
  <1>5. client[c].at \in Served /\ ObjectShape'
    BY <1>1 DEF Served, ObjectShape
  <1> QED
    BY <1>1, <1>2, <1>3, <1>4, <1>5, ClientServes

\* The client takes its own session's semaphore_Server and writes to its area.
LEMMA TakeServes ==
  ASSUME Registered, FirstInv, NEW c \in Client, NEW ctrl \in {"SET", "CLOSE"}, Take(c, ctrl)
  PROVE  FirstInv'
  <1> USE DEF Registered, FirstInv
  <1>1. client[c].at = "ready" /\ UNCHANGED <<thread, named>>
    BY DEF Take, ClientAt
  <1>2. PICK x \in Sessions : /\ x = client[c].session /\ thread[x].at = "loop"
                             /\ \A r \in Resources : client[c].has[r] = x
    BY <1>1, FoundAll DEF Served
  <1> DEFINE at == IF ctrl = "CLOSE" THEN "closing" ELSE "using"
  <1>3. /\ sem["Server"][x] > 0
        /\ sem' = [sem EXCEPT !["Server"][x] = @ - 1]
        /\ area' = [area EXCEPT ![x].ctrl = ctrl]
        /\ client' = [client EXCEPT ![c].at = at]
    BY <1>2 DEF Take, Resources, Semaphores
  <1>4. /\ client'[c].name = client[c].name /\ client'[c].session = client[c].session
        /\ client'[c].has = client[c].has /\ client'[c].at = at
    BY <1>3, ClientMoves DEF ClientStates
  <1>5. /\ ObjectShape' /\ area'[x].ctrl = ctrl
        /\ sem'["Server"][x] = sem["Server"][x] - 1 /\ sem'["request"][x] = sem["request"][x]
        /\ \A i \in Sessions \ {x} :
             /\ sem'["request"][i] = sem["request"][i] /\ sem'["Server"][i] = sem["Server"][i]
             /\ area'[i] = area[i]
        /\ \A i \in Sessions : area'[i].sized = area[i].sized
    BY <1>3 DEF ObjectShape, Semaphores
  <1>6. sem["Server"][x] = 1 /\ sem["request"][x] = 0
    <2>1. sem["request"][x] + sem["Server"][x] <= 1
      BY <1>1, <1>2 DEF ClientInv, Served
    <2>2. sem["request"][x] \in Nat /\ sem["Server"][x] \in Nat
      BY DEF ObjectShape, Semaphores
    <2> QED
      BY <2>1, <2>2, <1>3
  <1>7. ClientInv(c)
    OBVIOUS
  <1>8. ClientInv(c)'
    BY <1>1, <1>2, <1>4, <1>5, <1>6, <1>7 DEF ClientInv, Served
  <1>9. \A e \in Client \ {c} : client'[e] = client[e]
    BY <1>3 DEF Shape
  <1> QED
    BY <1>1, <1>2, <1>4, <1>5, <1>8, <1>9, ClientServes DEF Served

\* The client posts its own session's request and leaves after a CLOSE.
LEMMA PostServes ==
  ASSUME Registered, FirstInv, NEW c \in Client, PostRequest(c)
  PROVE  FirstInv'
  <1> USE DEF Registered, FirstInv
  <1>1. client[c].at \in {"using", "closing"} /\ UNCHANGED <<thread, named, area>>
    BY DEF PostRequest, ClientAt
  <1>2. PICK x \in Sessions : /\ x = client[c].session /\ thread[x].at = "loop"
                             /\ \A r \in Resources : client[c].has[r] = x
    BY <1>1, FoundAll DEF Served
  <1> DEFINE at == IF client[c].at = "using" THEN "ready" ELSE "gone"
  <1>3. /\ sem' = [sem EXCEPT !["request"][x] = @ + 1]
        /\ client' = [client EXCEPT ![c].at = at]
    BY <1>2 DEF PostRequest, Resources, Semaphores
  <1>4. /\ client'[c].name = client[c].name /\ client'[c].session = client[c].session
        /\ client'[c].has = client[c].has /\ client'[c].at = at
    BY <1>3, ClientMoves DEF ClientStates
  <1>5. /\ ObjectShape'
        /\ sem'["Server"][x] = sem["Server"][x] /\ sem'["request"][x] = sem["request"][x] + 1
        /\ \A i \in Sessions \ {x} :
             sem'["request"][i] = sem["request"][i] /\ sem'["Server"][i] = sem["Server"][i]
    BY <1>1, <1>3 DEF ObjectShape, Semaphores
  <1>6. ClientInv(c) /\ client[c].at \in Served
    BY <1>1 DEF Served
  <1>7. client'[c].at \in Served => ClientInv(c)'
    <2>1. sem["request"][x] = 0 /\ sem["Server"][x] = 0
      BY <1>1, <1>2, <1>6 DEF ClientInv
    <2> QED
      BY <2>1, <1>1, <1>2, <1>4, <1>5, <1>6 DEF ClientInv, Served
  <1>8. \A e \in Client \ {c} : client'[e] = client[e]
    BY <1>3 DEF Shape
  <1> QED
    BY <1>1, <1>2, <1>4, <1>5, <1>6, <1>7, <1>8, ClientServes

\* The server's state changes only when it stops or starts.
LEMMA OneRun ==
  ASSUME Next, ~Stop, ~Start
  PROVE  server' = server
  BY DEF Next, ListenerStep, Accept, CheckRecord, AddSession, listenerOnly, ThreadStep, ThreadOpen,
     SizeArea, HandleRequest, Unlink, CountOut, Ask, ClientStep, ClientOpen, Attach, Take,
     PostRequest, ClientAt

\* A restart ends the first run; every other step keeps its invariant.
LEMMA FirstRunServes ==
  ASSUME Registered, FirstServed, [Next]_vars
  PROVE  FirstServed'
  <1> SUFFICES ASSUME FirstRun' PROVE FirstInv'
    BY DEF FirstServed
  <1>1. ~Stop
    BY DEF Stop, FirstRun, Registered, Shape
  <1>2. ~Start
    <2> SUFFICES ASSUME Start PROVE FALSE
      OBVIOUS
    <2>1. server.restarts \in Nat /\ server'.restarts = server.restarts + 1
      BY DEF Start, Registered, Shape
    <2> QED
      BY <2>1 DEF FirstRun
  <1>3. CASE Next
    <2>1. FirstInv
      BY <1>1, <1>2, <1>3, OneRun DEF FirstRun, FirstServed
    <2>2. CASE ListenerStep
      BY <2>1, <2>2, ListenerServes, AddServes DEF ListenerStep
    <2>3. ASSUME NEW i \in Sessions, ThreadStep(i) PROVE FirstInv'
      BY <2>1, <2>3, OpenServes, SizeServes, HandleServes, UnlinkServes, CountOutServes
         DEF ThreadStep
    <2>4. ASSUME NEW c \in Client, \/ \E p \in Pool : Ask(c, p)
                                  \/ ClientStep(c)
                                  \/ \E ctrl \in {"SET", "CLOSE"} : Take(c, ctrl)
          PROVE  FirstInv'
      BY <2>1, <2>4, AskServes, FindServes, AttachServes, TakeServes, PostServes DEF ClientStep
    <2> QED
      BY <2>2, <2>3, <2>4, <1>1, <1>2, <1>3 DEF Next
  <1>4. CASE UNCHANGED vars
    <2>1. FirstInv
      BY <1>4 DEF FirstRun, FirstServed, vars
    <2> QED
      BY <2>1, <1>4 DEF FirstInv, ObjectShape, ThreadInv, NamesStand, ClientInv, OneClient, vars
  <1> QED
    BY <1>3, <1>4

\* While the server has not been stopped, every name stands for the object its
\* own session created, and a served client holds its own session's objects
\* (sharedMemCtl, prepare_shm).
THEOREM FirstRunServed == Spec => []FirstServed
  <1> USE Registration
  <1>1. Registered /\ FirstServed /\ [Next]_vars => FirstServed'
    BY FirstRunServes
  <1> QED
    BY <1>1, InitServed, PTL DEF Spec

\* An attached client and its thread opened the same four objects, and no other
\* client did: all the handles are the number of the one session.
THEOREM OwnSessions == Spec => []OwnSession
  <1>1. Registered /\ FirstServed => OwnSession
    <2> SUFFICES ASSUME Registered, FirstInv, NEW c \in Client, Attached(c)
                 PROVE  /\ client[c].has = thread[client[c].session].has
                        /\ \A d \in Client \ {c} : Attached(d) =>
                             \A r \in Resources : client[c].has[r] # client[d].has[r]
      BY DEF FirstServed, OwnSession
    <2>1. \A d \in Client : Attached(d) => client[d].at \in Served /\ client[d].at # "open"
      BY DEF Attached, Served
    <2>2. PICK s \in Sessions :
            /\ s = client[c].session
            /\ \A r \in Resources : client[c].has[r] = s /\ thread[s].has[r] = s
      BY <2>1, FoundAll
    <2>3. client[c].has = thread[s].has
      <3>1. client[c] \in Clients /\ thread[s] \in Threads
        BY DEF Registered, Shape
      <3>2. client[c].has \in [Resources -> Objects] /\ thread[s].has \in [Resources -> Objects]
        BY <3>1 DEF Clients, Threads
      <3> QED
        BY <3>2, <2>2
    <2>4. ASSUME NEW d \in Client \ {c}, Attached(d), NEW r \in Resources
          PROVE  client[c].has[r] # client[d].has[r]
      <3>1. client[d].has[r] = client[d].session
        BY <2>1, <2>4, FoundAll
      <3>2. client[d].session # client[c].session
        BY <2>1, <2>4 DEF FirstInv, OneClient
      <3> QED
        BY <3>1, <3>2, <2>2
    <2> QED
      BY <2>2, <2>3, <2>4
  <1> QED
    BY <1>1, Registration, FirstRunServed, PTL

\* A client that is ready found all semaphores, the thread creates them after it
\* gave the area its size, so the area it writes to has its size.
THEOREM Sized == Spec => []SizedBeforeUse
  <1>1. Registered /\ FirstServed => SizedBeforeUse
    <2> SUFFICES ASSUME Registered, FirstInv, NEW c \in Client,
                        client[c].at \in {"ready", "using", "closing"}
                 PROVE  area[client[c].has["shm"]].sized
      BY DEF FirstServed, SizedBeforeUse
    <2>1. PICK s \in Sessions :
            thread[s].at = "loop" /\ \A r \in Resources : client[c].has[r] = s
      BY FoundAll DEF Served
    <2> QED
      BY <2>1 DEF FirstInv, ThreadInv, Resources
  <1> QED
    BY <1>1, Registration, FirstRunServed, PTL

\* A name that is left stands for the object of a session of that name, which is
\* not counted out before it removed the name: with a count of 0 there is none.
THEOREM NothingLeftBehind == Spec => []NothingLeft
  <1>1. Registered /\ FirstServed => NothingLeft
    <2> SUFFICES ASSUME Registered, FirstInv, FirstRun, NEW p \in Pool, poolRecord[p].live = 0,
                        NEW r \in Resources, NEW n \in Names, n[1] = p, named[r][n] # Nobody
                 PROVE  FALSE
      BY DEF FirstServed, NothingLeft
    <2>1. LiveOf(p) = {}
      <3>1. Cardinality(LiveOf(p)) = 0
        BY DEF Registered, CountExact, FirstRun, LiveOf
      <3> QED
        BY <3>1, Countable, FS_EmptySet
    <2>2. PICK s \in Sessions : s = named[r][n]
      BY DEF Registered, Shape, Objects
    <2>3. thread[s].name = n /\ Stands(thread[s], r)
      BY <2>2 DEF Registered, Creators, FirstInv, NamesStand
    <2>4. Live(s)
      BY <2>3 DEF Stands, Opened, Live
    <2> QED
      BY <2>1, <2>3, <2>4 DEF LiveOf
  <1> QED
    BY <1>1, Registration, FirstRunServed, PTL

\* A thread enters its loop only by opening its last semaphore.
LEMMA OnlyOpening ==
  ASSUME Registered, Next, NEW i \in Sessions, thread[i].at = "open", thread'[i].at = "loop"
  PROVE  ThreadOpen(i)
  <1> USE DEF Registered, Shape
  <1>1. CASE ListenerStep
    <2>1. (\E c \in Client : Accept(c)) \/ CheckRecord => thread' = thread
      BY DEF Accept, CheckRecord, listenerOnly
    <2>2. AddSession => thread'[i] = thread[i] \/ thread'[i].at = "open"
      BY DEF AddSession
    <2> QED
      BY <1>1, <2>1, <2>2 DEF ListenerStep
  <1>2. ASSUME NEW j \in Sessions, ThreadStep(j) PROVE ThreadOpen(i)
    <2>1. j = i
      BY <1>2 DEF ThreadStep, ThreadOpen, SizeArea, HandleRequest, Unlink, CountOut
    <2> QED
      BY <2>1, <1>2 DEF ThreadStep, SizeArea, HandleRequest, Unlink, CountOut, ThreadAt
  <1>3. ASSUME NEW c \in Client, \/ \E p \in Pool : Ask(c, p)
                                \/ ClientStep(c)
                                \/ \E ctrl \in {"SET", "CLOSE"} : Take(c, ctrl)
        PROVE  FALSE
    BY <1>3 DEF ClientStep, Ask, ClientOpen, Attach, Take, PostRequest, ClientAt
  <1>4. CASE Stop
    BY <1>4 DEF Stop, Threads
  <1>5. CASE Start
    BY <1>5 DEF Start
  <1> QED
    BY <1>1, <1>2, <1>3, <1>4, <1>5 DEF Next

\* While the server has not been stopped, a thread created the semaphores it
\* starts its loop with: the one of the area is 1, the one of the requests 0.
THEOREM FreshFirst == Spec => FreshFirstStart
  <1>1. Registered /\ FirstServed /\ [Next]_vars
          => [FirstRun => \A i \in Sessions : StartsFresh(i)]_vars
    <2> SUFFICES ASSUME Registered, FirstInv, Next, NEW i \in Sessions,
                        thread[i].at = "open", thread'[i].at = "loop"
                 PROVE  /\ sem'["Server"][thread'[i].has["Server"]] = 1
                        /\ sem'["request"][thread'[i].has["request"]] = 0
      BY DEF FirstServed, StartsFresh, vars
    <2>1. ThreadOpen(i)
      BY OnlyOpening
    <2>2. thread[i].step = 4 /\ thread[i].step \in 1 .. 4
      <3>1. thread[i].name \in Names /\ thread[i].step \in 1 .. 4
        BY DEF Registered, Shape, Numbers, Threads
      <3> QED
        BY <3>1, <2>1, Opening DEF Registered
    <2>3. Order[thread[i].step] = "getback"
      BY <2>2 DEF Order
    <2>4. sem'["Server"] = sem["Server"] /\ sem'["request"] = sem["request"]
      BY <2>1, <2>3 DEF ThreadOpen, FirstInv, ObjectShape, Semaphores
    <2>5. sem["Server"][i] = 1 /\ sem["request"][i] = 0
      BY <2>2 DEF FirstInv, ThreadInv
    <2>6. thread'[i].has["Server"] = i /\ thread'[i].has["request"] = i
      <3>1. FirstInv'
        BY <2>1, OpenServes
      <3> QED
        BY <3>1 DEF FirstInv, ThreadInv, Opened, Resources, Semaphores
    <2> QED
      BY <2>4, <2>5, <2>6
  <1> QED
    BY <1>1, Registration, FirstRunServed, PTL DEF Spec, FreshFirstStart

-----------------------------------------------------------------------------
(***************************************************************************)
(* The bounds.  A turn is handed on between semaphores and clients and     *)
(* begins with semaphore_Server, which each thread creates once at most.   *)
(* So there are never more turns than sessions, counting those that are    *)
(* yet to create it.                                                       *)
(***************************************************************************)
\* Whoever uses a handle has one.
Has(t, r) == t.has[r] \in Sessions

ThreadHandles(t) ==
  /\ t.at = "size" => Has(t, "shm")
  /\ \A r \in Resources : t.at = "loop" \/ (t.at = "open" /\ Position[r] < t.step) => Has(t, r)

ClientHandles(b) ==
  \A r \in Resources :
    b.at \in {"attach", "ready", "using", "closing"} \/ (b.at = "open" /\ Position[r] < b.step)
      => Has(b, r)

Handles ==
  /\ \A i \in Sessions : ThreadHandles(thread[i])
  /\ \A c \in Client : ClientHandles(client[c])

\* The thread has not come to semaphore_Server.
Before(t) == t.at \in {"none", "size"} \/ (t.at = "open" /\ t.step <= 3)

Turns(s, th) ==
  [i \in Sessions |-> s["request"][i] + s["Server"][i] + (IF Before(th[i]) THEN 1 ELSE 0)]

\* The clients that have taken semaphore_Server and not posted their request.
Holding == {c \in Client : client[c].at \in {"using", "closing"}}

Bounded ==
  /\ sem \in [Semaphores -> [Sessions -> Nat]]
  /\ \A i \in Sessions : sem["getback"][i] = 0
  /\ area \in [Sessions -> [sized : BOOLEAN, ctrl : {"SET", "CLOSE"}]]
  /\ IsFiniteSet(Holding)
  /\ Sum(Turns(sem, thread), Sessions) + Cardinality(Holding) <= MaxSessions
  /\ server.restarts <= MaxRestarts
  /\ ~server.up => server.restarts < MaxRestarts
  /\ \A p \in Pool : poolRecord[p].live <= MaxSessions

-----------------------------------------------------------------------------
\* There are MaxSessions session numbers.
LEMMA SessionsFinite ==
  IsFiniteSet(Sessions) /\ Cardinality(Sessions) = MaxSessions
  BY BoundsAssumption, FS_Interval DEF Sessions

\* The turns of a session are a number, the sum of three.
LEMMA TurnsOf ==
  ASSUME NEW s, s \in [Semaphores -> [Sessions -> Nat]], NEW th, NEW i \in Sessions
  PROVE  /\ Turns(s, th)[i] \in Nat
         /\ s["request"][i] \in Nat /\ s["Server"][i] \in Nat
         /\ Turns(s, th)[i] = s["request"][i] + s["Server"][i] + (IF Before(th[i]) THEN 1 ELSE 0)
  <1>1. "request" \in Semaphores /\ "Server" \in Semaphores
    BY DEF Semaphores
  <1>2. s["request"][i] \in Nat /\ s["Server"][i] \in Nat
    BY <1>1
  <1> QED
    BY <1>2 DEF Turns

\* If no session gets more turns, there are no more.
LEMMA NoMoreTurns ==
  ASSUME Bounded, sem' \in [Semaphores -> [Sessions -> Nat]],
         \A i \in Sessions : Turns(sem', thread')[i] <= Turns(sem, thread)[i],
         Holding' = Holding
  PROVE  Sum(Turns(sem', thread'), Sessions) + Cardinality(Holding') <= MaxSessions
  <1> DEFINE f == Turns(sem, thread)
             g == Turns(sem', thread')
  <1>1. /\ \A i \in Sessions : f[i] \in Nat /\ g[i] \in Nat /\ g[i] <= f[i]
        /\ \A i \in Sessions : f[i] \in Nat
        /\ \A i \in Sessions : g[i] \in Nat
    BY TurnsOf DEF Bounded
  <1>2. Sum(f, Sessions) + Cardinality(Holding) <= MaxSessions /\ Cardinality(Holding) \in Nat
    BY FS_CardinalityType DEF Bounded
  <1> HIDE DEF f, g
  <1>3. Sum(g, Sessions) <= Sum(f, Sessions)
    BY <1>1, SessionsFinite, SumOrder
  <1>4. Sum(f, Sessions) \in Nat
    BY <1>1, SessionsFinite, SumElement
  <1>5. Sum(g, Sessions) \in Nat
    BY <1>1, SessionsFinite, SumElement
  <1>6. Sum(g, Sessions) + Cardinality(Holding) <= MaxSessions
    BY <1>2, <1>3, <1>4, <1>5, BoundsAssumption
  <1> QED
    BY <1>6 DEF g

\* At first every session has the one turn it is yet to create.
LEMMA InitBounded == Init => Handles /\ Bounded
  <1> SUFFICES ASSUME Init PROVE Handles /\ Bounded
    OBVIOUS
  <1>1. Handles
    <2>1. \A r \in Resources : Position[r] \in 1 .. 4
      BY OrderFacts
    <2> QED
      BY <2>1 DEF Init, Handles, ThreadHandles, ClientHandles
  <1>2. Holding = {}
    BY DEF Init, Holding
  <1>3. \A i \in Sessions : Turns(sem, thread)[i] = 1
    BY DEF Init, Turns, Before, Semaphores
  <1>4. Sum(Turns(sem, thread), Sessions) = MaxSessions
    BY <1>3, SessionsFinite, SumOfOnes
  <1>5. Cardinality(Holding) = 0 /\ IsFiniteSet(Holding)
    BY <1>2, FS_EmptySet
  <1>6. /\ sem \in [Semaphores -> [Sessions -> Nat]]
        /\ \A i \in Sessions : sem["getback"][i] = 0
        /\ area \in [Sessions -> [sized : BOOLEAN, ctrl : {"SET", "CLOSE"}]]
    BY DEF Init, Semaphores
  <1>7. /\ server.restarts <= MaxRestarts
        /\ ~server.up => server.restarts < MaxRestarts
        /\ \A p \in Pool : poolRecord[p].live <= MaxSessions
    BY BoundsAssumption DEF Init
  <1>8. Bounded
    BY <1>4, <1>5, <1>6, <1>7, BoundsAssumption DEF Bounded
  <1> QED
    BY <1>1, <1>8

\* The number of live sessions and that of restarts.
LEMMA CountsBounded ==
  ASSUME Registered, Registered', Bounded, Next
  PROVE  /\ server'.restarts <= MaxRestarts
         /\ ~server'.up => server'.restarts < MaxRestarts
         /\ \A p \in Pool : poolRecord'[p].live <= MaxSessions
  <1>1. CASE Stop
    BY <1>1, BoundsAssumption DEF Stop, Bounded, Registered, Shape
  <1>2. CASE Start
    BY <1>2, BoundsAssumption DEF Start, Bounded, Registered, Shape
  <1>3. CASE ~Stop /\ ~Start
    <2>1. UNCHANGED server
      BY <1>3 DEF Next, ListenerStep, Accept, CheckRecord, AddSession, listenerOnly, ThreadStep,
         ThreadOpen, SizeArea, HandleRequest, Unlink, CountOut, Ask, ClientStep, ClientOpen,
         Attach, PostRequest, Take, ClientAt
    <2>2. CASE server.up
      <3>1. ASSUME NEW p \in Pool PROVE poolRecord'[p].live <= MaxSessions
        <4>1. poolRecord'[p].live = Cardinality(LiveOf(p)')
          BY <2>1, <2>2 DEF Registered, CountExact, LiveOf
        <4>2. LiveOf(p)' \subseteq Sessions
          BY DEF LiveOf
        <4>3. Cardinality(LiveOf(p)') <= Cardinality(Sessions)
          BY <4>2, SessionsFinite, FS_Subset
        <4> QED
          BY <4>1, <4>3, SessionsFinite
      <3> QED
        BY <2>1, <3>1 DEF Bounded
    <2>3. CASE ~server.up
      <3>1. ~ListenerStep /\ \A i \in Sessions : ~ThreadStep(i)
        BY <2>3 DEF ListenerStep, Accept, CheckRecord, AddSession, Registered, Requests,
           ThreadStep, ThreadOpen, SizeArea, HandleRequest, Unlink, CountOut, ThreadAt
      <3>2. UNCHANGED poolRecord
        BY <1>3, <3>1 DEF Next, Ask, ClientStep, ClientOpen, Attach, PostRequest, Take, ClientAt
      <3> QED
        BY <2>1, <3>2 DEF Bounded
    <2> QED
      BY <2>2, <2>3
  <1> QED
    BY <1>1, <1>2, <1>3

\* A step of a thread, seen from the handles of the others ...
LEMMA ThreadHasHandles ==
  ASSUME Shape, Handles, NEW i \in Sessions, NEW u, thread' = [thread EXCEPT ![i] = u],
         ThreadHandles(u), UNCHANGED client
  PROVE  Handles'
  BY DEF Shape, Handles

\* ... and one of a client.
LEMMA ClientHasHandles ==
  ASSUME Shape, Handles, NEW c \in Client, NEW b, client' = [client EXCEPT ![c] = b],
         ClientHandles(b), UNCHANGED thread
  PROVE  Handles'
  BY DEF Shape, Handles

\* A session that is added has opened nothing, nor has its client.
LEMMA AddHandles ==
  ASSUME Registered, Handles, AddSession
  PROVE  Handles'
  <1> DEFINE c == listener.client
             i == started + 1
  <1>1. \A r \in Resources : ~(Position[r] < 1)
    BY OrderFacts
  <1>2. c \in Client /\ client[c].at = "asked" /\ client[c].step = 1 /\ i \in Sessions
    BY BoundsAssumption DEF AddSession, Registered, Requests, Shape, Sessions
  <1>3. PICK name, session :
          client' = [client EXCEPT ![c] = [@ EXCEPT !.at = "open", !.name = name,
                                                    !.session = session]]
    BY DEF AddSession
  <1>4. client[c] \in Clients
    BY <1>2 DEF Registered, Shape
  <1>5. client'[c].at = "open" /\ client'[c].step = 1
    BY <1>2, <1>3, <1>4 DEF Registered, Shape, Clients
  <1>6. \A d \in Client : d # c => client'[d] = client[d]
    BY <1>3 DEF Registered, Shape
  <1>7. ThreadHandles(thread'[i])
    BY <1>1, <1>2 DEF AddSession, Registered, Shape, ThreadHandles
  <1>8. \A j \in Sessions : j # i => thread'[j] = thread[j]
    BY DEF AddSession, Registered, Shape
  <1> HIDE DEF c, i
  <1>9. \A j \in Sessions : ThreadHandles(thread'[j])
    BY <1>7, <1>8 DEF Handles
  <1>10. ClientHandles(client'[c])
    BY <1>1, <1>5 DEF ClientHandles
  <1>11. \A d \in Client : ClientHandles(client'[d])
    BY <1>6, <1>10 DEF Handles
  <1> QED
    BY <1>9, <1>11 DEF Handles

\* A thread keeps the handle of the object it opens or creates.
LEMMA OpenHandles ==
  ASSUME Registered, Handles, NEW i \in Sessions, ThreadOpen(i)
  PROVE  Handles'
  <1> DEFINE t == thread[i]
             r == Order[t.step]
             o == IF named[r][t.name] = Nobody THEN i ELSE named[r][t.name]
             u == thread'[i]
  <1>1. t.at = "open" /\ t.name \in Names /\ t \in Threads /\ UNCHANGED client
    BY DEF ThreadOpen, ThreadAt, Registered, Numbers, Shape
  <1>2. /\ r \in Resources /\ o \in Sessions
        /\ u \in Threads /\ u.has = [t.has EXCEPT ![r] = o]
        /\ IF t.step = 1 THEN u.at = "size" /\ u.step = 1
           ELSE IF t.step = 4 THEN u.at = "loop" /\ u.step = 1
           ELSE u.at = "open" /\ u.step = t.step + 1
        /\ thread' = [thread EXCEPT ![i] = u]
    BY <1>1, Opening DEF Registered
  <1>3. \A q \in Resources : Position[q] < t.step => Has(t, q)
    BY <1>1 DEF Handles, ThreadHandles
  <1>4. t.step \in 1 .. 4 /\ DOMAIN t.has = Resources
    BY <1>1 DEF Threads
  <1>5. \A q \in Resources : Position[q] \in 1 .. 4 /\ (Position[q] = t.step => q = r)
    BY <1>4, OrderFacts
  <1>6. t.step = 1 => r = "shm"
    BY <1>4, OrderFacts
  <1> HIDE DEF r, o, u, t
  <1>7. \A q \in Resources : u.has[q] = IF q = r THEN o ELSE t.has[q]
    BY <1>2, <1>4
  <1>8. \A q \in Resources : Position[q] <= t.step => Has(u, q)
    BY <1>2, <1>3, <1>4, <1>5, <1>7 DEF Has
  <1>9. ThreadHandles(u)
    <2>1. CASE t.step = 1
      BY <1>2, <1>7, <1>6, <2>1 DEF ThreadHandles, Has
    <2>2. CASE t.step = 4
      BY <1>2, <1>5, <1>8, <2>2 DEF ThreadHandles
    <2>3. CASE t.step # 1 /\ t.step # 4
      BY <1>2, <1>4, <1>5, <1>8, <2>3 DEF ThreadHandles
    <2> QED
      BY <2>1, <2>2, <2>3
  <1> QED
    BY <1>1, <1>2, <1>9, ThreadHasHandles DEF Registered

\* The other steps of a thread close no handle that is used afterwards.
LEMMA ThreadStepHandles ==
  ASSUME Registered, Handles, NEW i \in Sessions,
         SizeArea(i) \/ HandleRequest(i) \/ Unlink(i) \/ CountOut(i)
  PROVE  Handles'
  <1> DEFINE t == thread[i]
  <1>0. t \in Threads /\ Shape /\ ThreadHandles(t) /\ UNCHANGED client
    BY DEF Registered, Shape, Handles, SizeArea, HandleRequest, Unlink, CountOut
  <1>1. CASE SizeArea(i)
    <2> DEFINE u == [t EXCEPT !.at = "open", !.step = 2]
    <2>1. thread' = [thread EXCEPT ![i] = u] /\ t.at = "size"
      BY <1>1 DEF SizeArea, ThreadAt
    <2>2. u.at = "open" /\ u.step = 2 /\ u.has = t.has
      BY <1>0 DEF Threads
    <2>3. \A r \in Resources : Position[r] < 2 => r = "shm"
      BY OrderFacts DEF Resources, Semaphores, Position
    <2> HIDE DEF u
    <2>4. ThreadHandles(u)
      BY <1>0, <2>1, <2>2, <2>3 DEF ThreadHandles, Has
    <2> QED
      BY <1>0, <2>1, <2>4, ThreadHasHandles
  <1>2. CASE HandleRequest(i)
    <2>1. PICK at \in {"loop", "unlink"} : thread' = [thread EXCEPT ![i].at = at]
      BY <1>2 DEF HandleRequest
    <2> DEFINE u == [t EXCEPT !.at = at]
    <2>2. thread' = [thread EXCEPT ![i] = u] /\ t.at = "loop"
      BY <1>2, <2>1 DEF HandleRequest, ThreadAt
    <2>3. u.at = at /\ u.has = t.has
      BY <1>0 DEF Threads
    <2> HIDE DEF u
    <2>4. ThreadHandles(u)
      BY <1>0, <2>2, <2>3 DEF ThreadHandles, Has
    <2> QED
      BY <1>0, <2>2, <2>4, ThreadHasHandles
  <1>3. CASE Unlink(i)
    <2> DEFINE u == Following(t, "count")
    <2>1. thread' = [thread EXCEPT ![i] = u] /\ t.at = "unlink"
      BY <1>3 DEF Unlink, ThreadAt
    <2>2. u.at \in {"unlink", "count"}
      <3>1. "count" \in ThreadStates
        BY DEF ThreadStates
      <3> QED
        BY <1>0, <2>1, <3>1, ThreadFollowing
    <2> HIDE DEF u
    <2>3. ThreadHandles(u)
      BY <2>2 DEF ThreadHandles
    <2> QED
      BY <1>0, <2>1, <2>3, ThreadHasHandles
  <1>4. CASE CountOut(i)
    <2> DEFINE u == [t EXCEPT !.at = "ended"]
    <2>1. thread' = [thread EXCEPT ![i] = u]
      BY <1>4 DEF CountOut
    <2>2. u.at = "ended"
      BY <1>0 DEF Threads
    <2> HIDE DEF u
    <2>3. ThreadHandles(u)
      BY <2>2 DEF ThreadHandles
    <2> QED
      BY <1>0, <2>1, <2>3, ThreadHasHandles
  <1> QED
    BY <1>1, <1>2, <1>3, <1>4

\* A client uses its handles when it has opened all four.
LEMMA ClientStepHandles ==
  ASSUME Registered, Handles, NEW c \in Client,
         \/ \E p \in Pool : Ask(c, p)
         \/ ClientStep(c)
         \/ \E ctrl \in {"SET", "CLOSE"} : Take(c, ctrl)
  PROVE  Handles'
  <1> DEFINE b == client[c]
             d == client'[c]
  <1>1. b \in Clients /\ Shape /\ ClientHandles(b)
    BY DEF Registered, Shape, Handles
  <1>2. UNCHANGED thread
    BY DEF Ask, ClientStep, ClientOpen, Attach, Take, PostRequest, ClientAt
  <1>3. ASSUME NEW p \in Pool, Ask(c, p) PROVE Handles'
    <2> DEFINE e == [b EXCEPT !.at = "asked", !.pool = p]
    <2>1. client' = [client EXCEPT ![c] = e]
      BY <1>3 DEF Ask
    <2>2. e.at = "asked"
      BY <1>1 DEF Clients
    <2> HIDE DEF e
    <2>3. ClientHandles(e)
      BY <2>2 DEF ClientHandles
    <2> QED
      BY <1>1, <1>2, <2>1, <2>3, ClientHasHandles
  <1>4. CASE ClientOpen(c)
    <2> DEFINE r == Order[b.step]
               o == named[r][b.name]
    <2>1. b.at = "open" /\ b.name \in Names
      BY <1>4 DEF ClientOpen, ClientAt, Registered, Requests
    <2>2. /\ r \in Resources /\ o \in Sessions
          /\ d.has = [b.has EXCEPT ![r] = o]
          /\ IF b.step = 4 THEN d.at = "attach" /\ d.step = 1
                           ELSE d.at = "open" /\ d.step = b.step + 1
          /\ client' = [client EXCEPT ![c] = d]
      BY <1>1, <1>4, <2>1, Finding
    <2>3. b.step \in 1 .. 4 /\ DOMAIN b.has = Resources
      BY <1>1 DEF Clients
    <2>4. \A q \in Resources : Position[q] \in 1 .. 4 /\ (Position[q] = b.step => q = r)
      BY <2>3, OrderFacts
    <2>5. \A q \in Resources : Position[q] < b.step => Has(b, q)
      BY <1>1, <2>1 DEF ClientHandles
    <2> HIDE DEF r, o, d, b
    <2>6. \A q \in Resources : d.has[q] = IF q = r THEN o ELSE b.has[q]
      BY <2>2, <2>3
    <2>7. \A q \in Resources : Position[q] <= b.step => Has(d, q)
      BY <2>2, <2>3, <2>4, <2>5, <2>6 DEF Has
    <2>8. ClientHandles(d)
      BY <2>2, <2>3, <2>4, <2>7 DEF ClientHandles
    <2> QED
      BY <1>1, <1>2, <2>2, <2>8, ClientHasHandles
  <1>5. ASSUME NEW at \in {"ready", "using", "closing", "gone"},
               client' = [client EXCEPT ![c].at = at],
               b.at \in {"attach", "ready", "using", "closing"}
        PROVE  Handles'
    <2> DEFINE e == [b EXCEPT !.at = at]
    <2>1. client' = [client EXCEPT ![c] = e]
      BY <1>5
    <2>2. e.at = at /\ e.has = b.has
      BY <1>1 DEF Clients
    <2>5. b.at \in {"attach", "ready", "using", "closing"}
      BY <1>5
    <2> HIDE DEF b
    <2>3. \A r \in Resources : Has(b, r)
      BY <1>1, <2>5 DEF ClientHandles
    <2> HIDE DEF e
    <2>4. ClientHandles(e)
      BY <2>2, <2>3 DEF ClientHandles, Has
    <2> QED
      BY <1>1, <1>2, <2>1, <2>4, ClientHasHandles
  <1>6. CASE Attach(c) \/ PostRequest(c) \/ \E ctrl \in {"SET", "CLOSE"} : Take(c, ctrl)
    BY <1>5, <1>6 DEF Attach, PostRequest, Take, ClientAt
  <1> QED
    BY <1>3, <1>4, <1>6 DEF ClientStep

\* A killed thread uses no handle.
LEMMA StopHandles ==
  ASSUME Registered, Handles, Stop
  PROVE  Handles'
  <1>1. \A i \in Sessions : /\ thread'[i].has = thread[i].has
                            /\ thread'[i].at \in {"none", "killed"}
    BY DEF Stop, Registered, Shape, Threads
  <1>2. \A c \in Client : client'[c] = client[c] \/ client'[c].at = "gone"
    BY DEF Stop, Registered, Shape, Clients
  <1>3. \A i \in Sessions : ThreadHandles(thread'[i])
    BY <1>1 DEF ThreadHandles
  <1>4. \A c \in Client : ClientHandles(client'[c])
    BY <1>2 DEF ClientHandles, Handles
  <1> QED
    BY <1>3, <1>4 DEF Handles

\* In every step whoever uses a handle has one.
LEMMA HandlesStep ==
  Registered /\ Handles /\ [Next]_vars => Handles'
  <1> SUFFICES ASSUME Registered, Handles, [Next]_vars PROVE Handles'
    OBVIOUS
  <1>1. CASE UNCHANGED <<thread, client>>
    BY <1>1 DEF Handles
  <1>2. CASE ListenerStep
    <2>1. UNCHANGED <<thread, client>> \/ AddSession
      BY <1>2 DEF ListenerStep, Accept, CheckRecord, listenerOnly
    <2> QED
      BY <1>1, <2>1, AddHandles
  <1>3. ASSUME NEW i \in Sessions, ThreadStep(i) PROVE Handles'
    BY <1>3, OpenHandles, ThreadStepHandles DEF ThreadStep
  <1>4. CASE Start \/ UNCHANGED vars
    BY <1>1, <1>4 DEF Start, vars
  <1> QED
    BY <1>2, <1>3, <1>4, ClientStepHandles, StopHandles DEF Next

\* What Bounded says of the semaphores and the areas.
Turning ==
  /\ sem \in [Semaphores -> [Sessions -> Nat]]
  /\ \A i \in Sessions : sem["getback"][i] = 0
  /\ area \in [Sessions -> [sized : BOOLEAN, ctrl : {"SET", "CLOSE"}]]
  /\ IsFiniteSet(Holding)
  /\ Sum(Turns(sem, thread), Sessions) + Cardinality(Holding) <= MaxSessions

\* A step that posts and takes no semaphore makes no turn.
LEMMA QuietTurns ==
  ASSUME Bounded, UNCHANGED sem, area' \in [Sessions -> [sized : BOOLEAN, ctrl : {"SET", "CLOSE"}]],
         \A i \in Sessions : Before(thread'[i]) => Before(thread[i]),
         Holding' = Holding
  PROVE  Turning'
  <1>1. \A i \in Sessions : Turns(sem', thread')[i] <= Turns(sem, thread)[i]
    <2> SUFFICES ASSUME NEW i \in Sessions
                 PROVE  Turns(sem', thread')[i] <= Turns(sem, thread)[i]
      OBVIOUS
    <2> DEFINE a == sem["request"][i]
               b == sem["Server"][i]
    <2>1. /\ a \in Nat /\ b \in Nat
          /\ Turns(sem, thread)[i] = a + b + (IF Before(thread[i]) THEN 1 ELSE 0)
          /\ Turns(sem', thread')[i] = a + b + (IF Before(thread'[i]) THEN 1 ELSE 0)
      BY TurnsOf DEF Bounded
    <2> HIDE DEF a, b
    <2> QED
      BY <2>1
  <1>2. sem' \in [Semaphores -> [Sessions -> Nat]]
    BY DEF Bounded
  <1>3. Sum(Turns(sem', thread'), Sessions) + Cardinality(Holding') <= MaxSessions
    BY <1>1, <1>2, NoMoreTurns
  <1> QED
    BY <1>3 DEF Turning, Bounded

\* A thread that posts and takes no semaphore makes no turn.
LEMMA OneThreadQuiet ==
  ASSUME Shape, Bounded, UNCHANGED <<sem, client>>,
         area' \in [Sessions -> [sized : BOOLEAN, ctrl : {"SET", "CLOSE"}]],
         NEW i \in Sessions, NEW u, thread' = [thread EXCEPT ![i] = u],
         Before(u) => Before(thread[i])
  PROVE  Turning'
  <1>1. \A j \in Sessions : Before(thread'[j]) => Before(thread[j])
    BY DEF Shape
  <1>2. Holding' = Holding
    BY DEF Holding
  <1> QED
    BY <1>1, <1>2, QuietTurns

\* Nor does the listener: a session it adds has the turn it had as an unused number.
LEMMA ListenerTurns ==
  ASSUME Registered, Bounded, ListenerStep
  PROVE  Turning'
  <1>1. UNCHANGED <<sem, area>> /\ area' \in [Sessions -> [sized : BOOLEAN, ctrl : {"SET", "CLOSE"}]]
    BY DEF ListenerStep, Accept, CheckRecord, AddSession, listenerOnly, Bounded
  <1>2. CASE ~AddSession
    <2>1. UNCHANGED <<thread, client>>
      BY <1>2 DEF ListenerStep, Accept, CheckRecord, listenerOnly
    <2> QED
      BY <1>1, <2>1, QuietTurns DEF Holding
  <1>3. CASE AddSession
    <2> DEFINE c == listener.client
               i == started + 1
    <2>1. c \in Client /\ client[c].at = "asked" /\ i \in Sessions /\ thread[i].at = "none"
      BY <1>3, BoundsAssumption DEF AddSession, Registered, Requests, Shape, Sessions, Numbers
    <2>2. \A j \in Sessions : j # i => thread'[j] = thread[j]
      BY <1>3 DEF AddSession, Registered, Shape
    <2>3. PICK name, session :
            client' = [client EXCEPT ![c] = [@ EXCEPT !.at = "open", !.name = name,
                                                      !.session = session]]
      BY <1>3 DEF AddSession
    <2>4. client[c] \in Clients
      BY <2>1 DEF Registered, Shape
    <2>5. client'[c].at = "open"
      BY <2>1, <2>3, <2>4 DEF Registered, Shape, Clients
    <2>6. \A d \in Client : d # c => client'[d] = client[d]
      BY <2>3 DEF Registered, Shape
    <2> HIDE DEF c, i
    <2>7. Holding' = Holding
      BY <2>1, <2>5, <2>6 DEF Holding
    <2>8. ASSUME NEW j \in Sessions, Before(thread'[j]) PROVE Before(thread[j])
      <3>1. CASE j = i
        BY <2>1, <3>1 DEF Before
      <3>2. CASE j # i
        <4>1. thread'[j] = thread[j]
          BY <2>2, <3>2
        <4> QED
          BY <2>8, <4>1
      <3> QED
        BY <3>1, <3>2
    <2> QED
      BY <1>1, <2>7, <2>8, QuietTurns
  <1> QED
    BY <1>2, <1>3

\* The thread creates semaphore_Server free, and no other with a turn.
LEMMA OpenTurns ==
  ASSUME Registered, Bounded, NEW i \in Sessions, ThreadOpen(i)
  PROVE  Turning'
  <1> DEFINE t == thread[i]
             r == Order[t.step]
             u == thread'[i]
  <1>1. t.at = "open" /\ t.name \in Names /\ t \in Threads /\ UNCHANGED <<client, area>>
    BY DEF ThreadOpen, ThreadAt, Registered, Numbers, Shape
  <1>2. /\ IF t.step = 1 THEN u.at = "size" /\ u.step = 1
           ELSE IF t.step = 4 THEN u.at = "loop" /\ u.step = 1
           ELSE u.at = "open" /\ u.step = t.step + 1
        /\ thread' = [thread EXCEPT ![i] = u]
    BY <1>1, Opening DEF Registered
  <1>3. t.step \in 1 .. 4 /\ Shape
    BY <1>1 DEF Threads, Registered
  <1>4. /\ Before(t) <=> t.step <= 3
        /\ Before(u) <=> t.step <= 2
    BY <1>1, <1>2, <1>3 DEF Before
  <1>5. sem' = sem \/ (r \in Semaphores /\ sem' = [sem EXCEPT ![r][i] = Initially(r)])
    BY DEF ThreadOpen
  <1>6. area' \in [Sessions -> [sized : BOOLEAN, ctrl : {"SET", "CLOSE"}]]
    BY <1>1 DEF Bounded
  <1>7. r = "Server" => t.step = 3
    BY <1>3 DEF Order
  <1> HIDE DEF u, t, r
  <1>8. CASE sem' = sem
    <2>1. Before(u) => Before(thread[i])
      BY <1>3, <1>4 DEF t
    <2> QED
      BY <1>1, <1>2, <1>3, <1>6, <1>8, <2>1, OneThreadQuiet
  <1>9. CASE r \in Semaphores /\ sem' = [sem EXCEPT ![r][i] = Initially(r)]
    <2>1. /\ sem' \in [Semaphores -> [Sessions -> Nat]]
          /\ \A q \in Semaphores : \A j \in Sessions :
               sem'[q][j] = IF q = r /\ j = i THEN Initially(r) ELSE sem[q][j]
      BY <1>9 DEF Bounded, Initially
    <2>2. "request" \in Semaphores /\ "Server" \in Semaphores /\ "getback" \in Semaphores
      BY DEF Semaphores
    <2>3. \A j \in Sessions : sem'["getback"][j] = 0
      BY <2>1, <2>2 DEF Bounded, Initially
    <2>4. \A j \in Sessions : j # i => thread'[j] = thread[j]
      BY <1>2 DEF Registered, Shape
    <2>5. ASSUME NEW j \in Sessions
          PROVE  Turns(sem', thread')[j] <= Turns(sem, thread)[j]
      <3>1. /\ Turns(sem, thread)[j] = sem["request"][j] + sem["Server"][j]
                                         + (IF Before(thread[j]) THEN 1 ELSE 0)
            /\ sem["request"][j] \in Nat /\ sem["Server"][j] \in Nat
        BY TurnsOf DEF Bounded
      <3>2. /\ Turns(sem', thread')[j] = sem'["request"][j] + sem'["Server"][j]
                                           + (IF Before(thread'[j]) THEN 1 ELSE 0)
        BY <2>1, TurnsOf
      <3>3. CASE j # i
        <4>1. /\ sem'["request"][j] = sem["request"][j] /\ sem'["Server"][j] = sem["Server"][j]
              /\ thread'[j] = thread[j]
          BY <2>1, <2>2, <2>4, <3>3
        <4>2. Turns(sem', thread')[j] = Turns(sem, thread)[j]
          BY <3>1, <3>2, <4>1
        <4>3. Turns(sem, thread)[j] \in Nat
          BY TurnsOf DEF Bounded
        <4> QED
          BY <4>2, <4>3
      <3>4. CASE j = i /\ r = "Server"
        <4>1. Before(thread[j]) /\ ~Before(thread'[j])
          BY <1>3, <1>4, <1>7, <3>4 DEF t, u
        <4>2. sem'["request"][j] = sem["request"][j] /\ sem'["Server"][j] = 1
          BY <2>1, <2>2, <3>4 DEF Initially
        <4>3. Turns(sem', thread')[j] = sem["request"][j] + 1
          BY <3>1, <3>2, <4>1, <4>2
        <4>4. Turns(sem, thread)[j] = sem["request"][j] + sem["Server"][j] + 1
          BY <3>1, <4>1
        <4> QED
          BY <3>1, <4>3, <4>4
      <3>5. CASE j = i /\ r # "Server"
        <4>1. Before(thread'[j]) => Before(thread[j])
          BY <1>3, <1>4, <3>5 DEF t, u
        <4>2. /\ sem'["request"][j] = 0 \/ sem'["request"][j] = sem["request"][j]
              /\ sem'["Server"][j] = sem["Server"][j]
          BY <2>1, <2>2, <3>5 DEF Initially
        <4> HIDE DEF Turns
        <4>3. CASE sem'["request"][j] = 0
          BY <3>1, <3>2, <4>1, <4>2, <4>3
        <4>4. CASE sem'["request"][j] = sem["request"][j]
          BY <3>1, <3>2, <4>1, <4>2, <4>4
        <4> QED
          BY <4>2, <4>3, <4>4
      <3> QED
        BY <3>3, <3>4, <3>5
    <2>6. Holding' = Holding
      BY <1>1 DEF Holding
    <2>7. Sum(Turns(sem', thread'), Sessions) + Cardinality(Holding') <= MaxSessions
      BY <2>1, <2>5, <2>6, NoMoreTurns
    <2> QED
      BY <1>6, <2>1, <2>3, <2>6, <2>7 DEF Turning, Bounded
  <1> QED
    BY <1>5, <1>8, <1>9

\* A thread that sizes, unlinks or counts out makes no turn.
LEMMA ThreadQuiet ==
  ASSUME Registered, Bounded, NEW i \in Sessions, SizeArea(i) \/ Unlink(i) \/ CountOut(i)
  PROVE  Turning'
  <1> DEFINE t == thread[i]
  <1>0. t \in Threads /\ Shape /\ UNCHANGED <<sem, client>>
    BY DEF Registered, Shape, SizeArea, Unlink, CountOut
  <1>1. CASE SizeArea(i)
    <2> DEFINE u == [t EXCEPT !.at = "open", !.step = 2]
    <2>1. thread' = [thread EXCEPT ![i] = u] /\ t.at = "size"
      BY <1>1 DEF SizeArea, ThreadAt
    <2>2. Before(t)
      <3>1. t.at = "size"
        BY <2>1
      <3> HIDE DEF t
      <3> QED
        BY <3>1 DEF Before
    <2>3. area' \in [Sessions -> [sized : BOOLEAN, ctrl : {"SET", "CLOSE"}]]
      BY <1>1 DEF SizeArea, Bounded
    <2> HIDE DEF u
    <2> QED
      BY <1>0, <2>1, <2>2, <2>3, OneThreadQuiet
  <1>2. CASE Unlink(i) \/ CountOut(i)
    <2>1. PICK u : thread' = [thread EXCEPT ![i] = u] /\ u.at \in {"unlink", "count", "ended"}
      <3>1. CASE Unlink(i)
        <4>1. "count" \in ThreadStates
          BY DEF ThreadStates
        <4>2. thread' = [thread EXCEPT ![i] = Following(t, "count")] /\ t.at = "unlink"
          BY <3>1 DEF Unlink, ThreadAt
        <4>3. Following(t, "count").at \in {"unlink", "count"}
          BY <1>0, <4>1, <4>2, ThreadFollowing
        <4> QED
          BY <4>2, <4>3
      <3>2. CASE CountOut(i)
        <4>1. thread' = [thread EXCEPT ![i] = [t EXCEPT !.at = "ended"]]
          BY <3>2 DEF CountOut
        <4>2. [t EXCEPT !.at = "ended"].at = "ended"
          BY <1>0 DEF Threads
        <4> QED
          BY <4>1, <4>2
      <3> QED
        BY <1>2, <3>1, <3>2
    <2>2. ~Before(u)
      BY <2>1 DEF Before
    <2>3. area' \in [Sessions -> [sized : BOOLEAN, ctrl : {"SET", "CLOSE"}]]
      BY <1>2 DEF Unlink, CountOut, Bounded
    <2> QED
      BY <1>0, <2>1, <2>2, <2>3, OneThreadQuiet
  <1> QED
    BY <1>1, <1>2

\* A turn goes from a request to semaphore_Server, of one object or of two.
LEMMA HandleTurns ==
  ASSUME Registered, Handles, Bounded, NEW i \in Sessions, HandleRequest(i)
  PROVE  Turning'
  <1> DEFINE t == thread[i]
             a == t.has["request"]
             b == t.has["Server"]
             f == Turns(sem, thread)
             g == Turns(sem', thread')
  <1>1. /\ t.at = "loop" /\ t \in Threads /\ Shape
        /\ UNCHANGED client /\ UNCHANGED area
        /\ sem["request"][a] > 0
        /\ sem' = [sem EXCEPT !["request"][a] = @ - 1, !["Server"][b] = @ + 1]
    BY DEF HandleRequest, ThreadAt, Registered, Shape
  <1>2. "request" \in Semaphores /\ "Server" \in Semaphores /\ "getback" \in Semaphores
        /\ "request" \in Resources /\ "Server" \in Resources
    BY DEF Semaphores, Resources
  <1>3. a \in Sessions /\ b \in Sessions
    BY <1>1, <1>2 DEF Handles, ThreadHandles, Has
  <1>4. sem \in [Semaphores -> [Sessions -> Nat]]
    BY DEF Bounded
  <1> HIDE DEF a, b
  <1>5. /\ \A j \in Sessions : sem'["request"][j] = IF j = a THEN sem["request"][j] - 1
                                                    ELSE sem["request"][j]
        /\ \A j \in Sessions : sem'["Server"][j] = IF j = b THEN sem["Server"][j] + 1
                                                   ELSE sem["Server"][j]
        /\ \A j \in Sessions : sem'["getback"][j] = sem["getback"][j]
    BY <1>1, <1>2, <1>3, <1>4
  <1>6. sem' \in [Semaphores -> [Sessions -> Nat]]
    <2>1. sem["request"][a] - 1 \in Nat /\ sem["Server"][b] + 1 \in Nat
      BY <1>1, <1>2, <1>3, <1>4
    <2>2. [sem["request"] EXCEPT ![a] = @ - 1] \in [Sessions -> Nat]
      BY <1>2, <1>4, <2>1
    <2>3. [sem["Server"] EXCEPT ![b] = @ + 1] \in [Sessions -> Nat]
      BY <1>2, <1>4, <2>1
    <2>4. sem' = [sem EXCEPT !["request"] = [sem["request"] EXCEPT ![a] = @ - 1],
                             !["Server"] = [sem["Server"] EXCEPT ![b] = @ + 1]]
      BY <1>1, <1>2, <1>4
    <2> QED
      BY <1>4, <2>2, <2>3, <2>4
  <1>7. \A j \in Sessions : Before(thread'[j]) <=> Before(thread[j])
    <2>1. PICK at \in {"loop", "unlink"} : thread' = [thread EXCEPT ![i].at = at]
      BY DEF HandleRequest
    <2>2. thread'[i].at = at
      BY <1>1, <2>1 DEF Shape, Threads
    <2>3. ~Before(thread'[i]) /\ ~Before(thread[i])
      BY <1>1, <2>2 DEF Before
    <2>4. \A j \in Sessions : j # i => thread'[j] = thread[j]
      BY <1>1, <2>1 DEF Shape
    <2>5. ASSUME NEW j \in Sessions PROVE Before(thread'[j]) <=> Before(thread[j])
      BY <2>3, <2>4
    <2> QED
      BY <2>5
  <1>8. ASSUME NEW j \in Sessions
        PROVE  /\ f[j] \in Nat /\ g[j] \in Nat
               /\ sem["request"][j] \in Nat /\ sem["Server"][j] \in Nat
               /\ f[j] = sem["request"][j] + sem["Server"][j] + (IF Before(thread[j]) THEN 1 ELSE 0)
               /\ g[j] = sem'["request"][j] + sem'["Server"][j] + (IF Before(thread[j]) THEN 1 ELSE 0)
    BY <1>4, <1>6, <1>7, TurnsOf
  <1> HIDE DEF f, g
  <1>9. Sum(g, Sessions) = Sum(f, Sessions)
    <2>1. CASE a = b
      <3>1. ASSUME NEW j \in Sessions PROVE g[j] = f[j]
        BY <1>5, <1>8, <2>1
      <3> QED
        BY <3>1, SessionsFinite, SumSame
    <2>2. CASE a # b
      <3>1. \A j \in Sessions : j # a /\ j # b => f[j] = g[j]
        BY <1>5, <1>8
      <3>2. f[a] = g[a] + 1
        BY <1>3, <1>5, <1>8, <2>2
      <3>3. g[b] = f[b] + 1
        BY <1>3, <1>5, <1>8, <2>2
      <3>4. (\A j \in Sessions : f[j] \in Nat) /\ (\A j \in Sessions : g[j] \in Nat)
        BY <1>8
      <3> QED
        BY <1>3, <2>2, <3>1, <3>2, <3>3, <3>4, SessionsFinite, SumMove
    <2> QED
      BY <2>1, <2>2
  <1>10. Holding' = Holding
    BY <1>1 DEF Holding
  <1> QED
    BY <1>1, <1>5, <1>6, <1>9, <1>10 DEF Turning, Bounded, f, g

\* The client takes a turn off semaphore_Server ...
LEMMA TakeTurns ==
  ASSUME Registered, Handles, Bounded, NEW c \in Client, NEW ctrl \in {"SET", "CLOSE"},
         Take(c, ctrl)
  PROVE  Turning'
  <1> DEFINE b == client[c]
             o == b.has["Server"]
             f == Turns(sem, thread)
             g == Turns(sem', thread')
             at == IF ctrl = "CLOSE" THEN "closing" ELSE "using"
  <1>1. /\ b.at = "ready" /\ b \in Clients /\ Shape /\ UNCHANGED thread
        /\ sem["Server"][o] > 0 /\ sem' = [sem EXCEPT !["Server"][o] = @ - 1]
        /\ area' = [area EXCEPT ![b.has["shm"]].ctrl = ctrl]
        /\ client' = [client EXCEPT ![c].at = at]
    BY DEF Take, ClientAt, Registered, Shape
  <1>2. /\ "request" \in Semaphores /\ "Server" \in Semaphores /\ "getback" \in Semaphores
        /\ "Server" \in Resources
    BY DEF Semaphores, Resources
  <1>3. o \in Sessions
    BY <1>1, <1>2 DEF Handles, ClientHandles, Has
  <1>4. sem \in [Semaphores -> [Sessions -> Nat]]
    BY DEF Bounded
  <1>5. area' \in [Sessions -> [sized : BOOLEAN, ctrl : {"SET", "CLOSE"}]]
    BY <1>1 DEF Bounded
  <1>6. Holding' = Holding \cup {c} /\ c \notin Holding
    <2>0. at \in ClientStates
      BY DEF ClientStates
    <2>1. client'[c].at = at
      <3> HIDE DEF at
      <3> QED
        BY <1>1, <2>0, ClientMoves
    <2>2. \A d \in Client : d # c => client'[d] = client[d]
      BY <1>1 DEF Shape
    <2>3. at \in {"using", "closing"}
      OBVIOUS
    <2> HIDE DEF at
    <2> QED
      BY <1>1, <2>1, <2>2, <2>3 DEF Holding
  <1>7. IsFiniteSet(Holding') /\ Cardinality(Holding') = Cardinality(Holding) + 1
        /\ Cardinality(Holding) \in Nat
    BY <1>6, FS_AddElement, FS_CardinalityType DEF Bounded
  <1> HIDE DEF o
  <1>8. /\ sem' \in [Semaphores -> [Sessions -> Nat]]
        /\ \A j \in Sessions : sem'["request"][j] = sem["request"][j]
        /\ \A j \in Sessions : sem'["getback"][j] = sem["getback"][j]
        /\ \A j \in Sessions : j # o => sem'["Server"][j] = sem["Server"][j]
        /\ sem'["Server"][o] = sem["Server"][o] - 1
    BY <1>1, <1>2, <1>3, <1>4
  <1>9. ASSUME NEW j \in Sessions
        PROVE  /\ f[j] \in Nat /\ g[j] \in Nat
               /\ sem["request"][j] \in Nat /\ sem["Server"][j] \in Nat
               /\ f[j] = sem["request"][j] + sem["Server"][j] + (IF Before(thread[j]) THEN 1 ELSE 0)
               /\ g[j] = sem'["request"][j] + sem'["Server"][j] + (IF Before(thread[j]) THEN 1 ELSE 0)
    <2>1. sem' \in [Semaphores -> [Sessions -> Nat]]
      BY <1>8
    <2>2. Before(thread'[j]) <=> Before(thread[j])
      BY <1>1
    <2>3. /\ f[j] \in Nat /\ sem["request"][j] \in Nat /\ sem["Server"][j] \in Nat
          /\ f[j] = sem["request"][j] + sem["Server"][j] + (IF Before(thread[j]) THEN 1 ELSE 0)
      BY <1>4, TurnsOf
    <2>4. /\ g[j] \in Nat
          /\ g[j] = sem'["request"][j] + sem'["Server"][j] + (IF Before(thread'[j]) THEN 1 ELSE 0)
      BY <2>1, TurnsOf
    <2> QED
      BY <2>2, <2>3, <2>4
  <1> HIDE DEF f, g
  <1>10. (\A j \in Sessions : f[j] \in Nat) /\ (\A j \in Sessions : g[j] \in Nat)
    BY <1>9
  <1>11. \A j \in Sessions : j # o => f[j] = g[j]
    BY <1>8, <1>9
  <1>12. f[o] = g[o] + 1
    BY <1>3, <1>8, <1>9
  <1>13. Sum(g, Sessions) + f[o] = Sum(f, Sessions) + g[o]
    BY <1>3, <1>10, <1>11, SessionsFinite, SumChange
  <1>14. Sum(g, Sessions) \in Nat
    BY <1>10, SessionsFinite, SumElement
  <1>15. Sum(f, Sessions) \in Nat
    BY <1>10, SessionsFinite, SumElement
  <1>16. g[o] \in Nat
    BY <1>3, <1>10
  <1>17. Sum(g, Sessions) + 1 = Sum(f, Sessions)
    BY <1>12, <1>13, <1>14, <1>15, <1>16
  <1>18. Sum(f, Sessions) + Cardinality(Holding) <= MaxSessions
    BY DEF Bounded, f
  <1>19. Sum(g, Sessions) + Cardinality(Holding') <= MaxSessions
    BY <1>7, <1>14, <1>17, <1>18, BoundsAssumption
  <1>20. \A j \in Sessions : sem'["getback"][j] = 0
    BY <1>8 DEF Bounded
  <1> QED
    BY <1>5, <1>7, <1>8, <1>19, <1>20 DEF Turning, g

\* ... and posts it as a request.
LEMMA PostTurns ==
  ASSUME Registered, Handles, Bounded, NEW c \in Client, PostRequest(c)
  PROVE  Turning'
  <1> DEFINE b == client[c]
             o == b.has["request"]
             f == Turns(sem, thread)
             g == Turns(sem', thread')
             at == IF b.at = "using" THEN "ready" ELSE "gone"
  <1>1. /\ b.at \in {"using", "closing"} /\ b \in Clients /\ Shape
        /\ UNCHANGED thread /\ UNCHANGED area
        /\ sem' = [sem EXCEPT !["request"][o] = @ + 1]
        /\ client' = [client EXCEPT ![c].at = at]
    BY DEF PostRequest, ClientAt, Registered, Shape
  <1>2. /\ "request" \in Semaphores /\ "Server" \in Semaphores /\ "getback" \in Semaphores
        /\ "request" \in Resources
    BY DEF Semaphores, Resources
  <1>3. o \in Sessions
    BY <1>1, <1>2 DEF Handles, ClientHandles, Has
  <1>4. sem \in [Semaphores -> [Sessions -> Nat]]
    BY DEF Bounded
  <1>5. area' \in [Sessions -> [sized : BOOLEAN, ctrl : {"SET", "CLOSE"}]]
    BY <1>1 DEF Bounded
  <1>6. Holding' = Holding \ {c} /\ c \in Holding
    <2>0. at \in ClientStates
      BY DEF ClientStates
    <2>1. client'[c].at = at
      <3> HIDE DEF at
      <3> QED
        BY <1>1, <2>0, ClientMoves
    <2>2. \A d \in Client : d # c => client'[d] = client[d]
      BY <1>1 DEF Shape
    <2>3. at \notin {"using", "closing"}
      OBVIOUS
    <2> HIDE DEF at
    <2> QED
      BY <1>1, <2>1, <2>2, <2>3 DEF Holding
  <1>7. IsFiniteSet(Holding') /\ Cardinality(Holding') = Cardinality(Holding) - 1
        /\ Cardinality(Holding) \in Nat
    BY <1>6, FS_RemoveElement, FS_CardinalityType DEF Bounded
  <1> HIDE DEF o
  <1>8. /\ sem' \in [Semaphores -> [Sessions -> Nat]]
        /\ \A j \in Sessions : sem'["Server"][j] = sem["Server"][j]
        /\ \A j \in Sessions : sem'["getback"][j] = sem["getback"][j]
        /\ \A j \in Sessions : j # o => sem'["request"][j] = sem["request"][j]
        /\ sem'["request"][o] = sem["request"][o] + 1
    BY <1>1, <1>2, <1>3, <1>4
  <1>9. ASSUME NEW j \in Sessions
        PROVE  /\ f[j] \in Nat /\ g[j] \in Nat
               /\ sem["request"][j] \in Nat /\ sem["Server"][j] \in Nat
               /\ f[j] = sem["request"][j] + sem["Server"][j] + (IF Before(thread[j]) THEN 1 ELSE 0)
               /\ g[j] = sem'["request"][j] + sem'["Server"][j] + (IF Before(thread[j]) THEN 1 ELSE 0)
    <2>1. sem' \in [Semaphores -> [Sessions -> Nat]]
      BY <1>8
    <2>2. Before(thread'[j]) <=> Before(thread[j])
      BY <1>1
    <2>3. /\ f[j] \in Nat /\ sem["request"][j] \in Nat /\ sem["Server"][j] \in Nat
          /\ f[j] = sem["request"][j] + sem["Server"][j] + (IF Before(thread[j]) THEN 1 ELSE 0)
      BY <1>4, TurnsOf
    <2>4. /\ g[j] \in Nat
          /\ g[j] = sem'["request"][j] + sem'["Server"][j] + (IF Before(thread'[j]) THEN 1 ELSE 0)
      BY <2>1, TurnsOf
    <2> QED
      BY <2>2, <2>3, <2>4
  <1> HIDE DEF f, g
  <1>10. (\A j \in Sessions : f[j] \in Nat) /\ (\A j \in Sessions : g[j] \in Nat)
    BY <1>9
  <1>11. \A j \in Sessions : j # o => f[j] = g[j]
    BY <1>8, <1>9
  <1>12. g[o] = f[o] + 1
    BY <1>3, <1>8, <1>9
  <1>13. Sum(g, Sessions) + f[o] = Sum(f, Sessions) + g[o]
    BY <1>3, <1>10, <1>11, SessionsFinite, SumChange
  <1>14. Sum(g, Sessions) \in Nat
    BY <1>10, SessionsFinite, SumElement
  <1>15. Sum(f, Sessions) \in Nat
    BY <1>10, SessionsFinite, SumElement
  <1>16. f[o] \in Nat
    BY <1>3, <1>10
  <1>17. Sum(g, Sessions) = Sum(f, Sessions) + 1
    BY <1>12, <1>13, <1>14, <1>15, <1>16
  <1>18. Sum(f, Sessions) + Cardinality(Holding) <= MaxSessions
    BY DEF Bounded, f
  <1>19. Sum(g, Sessions) + Cardinality(Holding') <= MaxSessions
    BY <1>7, <1>15, <1>17, <1>18, BoundsAssumption
  <1>20. \A j \in Sessions : sem'["getback"][j] = 0
    BY <1>8 DEF Bounded
  <1> QED
    BY <1>5, <1>7, <1>8, <1>19, <1>20 DEF Turning, g

\* The other steps of a client hand on no turn.
LEMMA ClientQuiet ==
  ASSUME Registered, Bounded, NEW c \in Client,
         (\E p \in Pool : Ask(c, p)) \/ ClientOpen(c) \/ Attach(c)
  PROVE  Turning'
  <1> DEFINE b == client[c]
  <1>1. /\ UNCHANGED sem /\ UNCHANGED thread /\ UNCHANGED area /\ Shape /\ b \in Clients
        /\ b.at \in {"new", "open", "attach"}
    BY DEF Ask, ClientOpen, Attach, ClientAt, Registered, Shape
  <1>2. area' \in [Sessions -> [sized : BOOLEAN, ctrl : {"SET", "CLOSE"}]]
    BY <1>1 DEF Bounded
  <1>3. /\ client'[c].at \notin {"using", "closing"}
        /\ \A d \in Client : d # c => client'[d] = client[d]
    <2>1. ASSUME NEW p \in Pool, Ask(c, p) PROVE <1>3
      <3> DEFINE e == [b EXCEPT !.at = "asked", !.pool = p]
      <3>1. client' = [client EXCEPT ![c] = e]
        BY <2>1 DEF Ask
      <3>2. e.at = "asked"
        BY <1>1 DEF Clients
      <3> HIDE DEF e
      <3> QED
        BY <1>1, <3>1, <3>2 DEF Shape
    <2>2. CASE ClientOpen(c)
      <3>1. b.name \in Names
        BY <2>2 DEF ClientOpen, ClientAt, Registered, Requests
      <3>2. client'[c].at \in {"attach", "open"} /\ client' = [client EXCEPT ![c] = client'[c]]
        BY <1>1, <2>2, <3>1, Finding
      <3> QED
        BY <1>1, <3>2 DEF Shape
    <2>3. CASE Attach(c)
      <3>1. client' = [client EXCEPT ![c].at = "ready"]
        BY <2>3 DEF Attach
      <3>2. client'[c].at = "ready"
        BY <1>1, <3>1, ClientMoves DEF ClientStates
      <3> QED
        BY <1>1, <3>1, <3>2 DEF Shape
    <2> QED
      BY <2>1, <2>2, <2>3
  <1>4. Holding' = Holding
    BY <1>1, <1>3 DEF Holding
  <1> QED
    BY <1>1, <1>2, <1>4, QuietTurns

\* A stop loses the turns that threads were yet to create.
LEMMA StopTurns ==
  ASSUME Registered, Bounded, Stop
  PROVE  Turning'
  <1>1. \A i \in Sessions : thread'[i] = thread[i] \/ thread'[i].at = "killed"
    BY DEF Stop, Registered, Shape, Threads
  <1>2. \A i \in Sessions : Before(thread'[i]) => Before(thread[i])
    <2> SUFFICES ASSUME NEW i \in Sessions PROVE Before(thread'[i]) => Before(thread[i])
      OBVIOUS
    <2>1. CASE thread'[i] = thread[i]
      BY <2>1
    <2>2. CASE thread'[i].at = "killed"
      BY <2>2 DEF Before
    <2> QED
      BY <1>1, <2>1, <2>2
  <1>3. \A c \in Client : client'[c] = client[c] \/ (client[c].at = "asked" /\ client'[c].at = "gone")
    BY DEF Stop, Registered, Shape, Clients
  <1>4. Holding' = Holding
    BY <1>3 DEF Holding
  <1>5. UNCHANGED sem /\ area' \in [Sessions -> [sized : BOOLEAN, ctrl : {"SET", "CLOSE"}]]
    BY DEF Stop, Bounded
  <1> QED
    BY <1>2, <1>4, <1>5, QuietTurns

\* In every step the bounds hold.
LEMMA BoundedStep ==
  Registered /\ Registered' /\ Handles /\ Bounded /\ [Next]_vars => Bounded'
  <1> SUFFICES ASSUME Registered, Registered', Handles, Bounded, [Next]_vars PROVE Bounded'
    OBVIOUS
  <1>1. CASE UNCHANGED vars
    <2>1. UNCHANGED <<sem, thread, area, server, poolRecord>> /\ Holding' = Holding
      BY <1>1 DEF vars, Holding
    <2>2. Turns(sem', thread') = Turns(sem, thread)
      BY <2>1 DEF Turns
    <2> QED
      BY <2>1, <2>2 DEF Bounded
  <1>2. CASE Next
    <2>1. ASSUME ListenerStep PROVE Turning'
      BY <2>1, ListenerTurns
    <2>2. ASSUME NEW i \in Sessions, ThreadStep(i) PROVE Turning'
      BY <2>2, OpenTurns, ThreadQuiet, HandleTurns DEF ThreadStep
    <2>3. ASSUME NEW c \in Client,
                 \/ \E p \in Pool : Ask(c, p)
                 \/ ClientStep(c)
                 \/ \E ctrl \in {"SET", "CLOSE"} : Take(c, ctrl)
          PROVE  Turning'
      BY <2>3, ClientQuiet, TakeTurns, PostTurns DEF ClientStep
    <2>4. ASSUME Stop PROVE Turning'
      BY <2>4, StopTurns
    <2>5. ASSUME Start PROVE Turning'
      <3>1. UNCHANGED <<sem, thread, area, client>> /\ Holding' = Holding
        BY <2>5 DEF Start, Holding
      <3>2. area' \in [Sessions -> [sized : BOOLEAN, ctrl : {"SET", "CLOSE"}]]
        BY <3>1 DEF Bounded
      <3> QED
        BY <3>1, <3>2, QuietTurns
    <2>6. Turning'
      BY <1>2, <2>1, <2>2, <2>3, <2>4, <2>5 DEF Next
    <2>7. /\ server'.restarts <= MaxRestarts
          /\ ~server'.up => server'.restarts < MaxRestarts
          /\ \A p \in Pool : poolRecord'[p].live <= MaxSessions
      BY <1>2, CountsBounded
    <2> QED
      BY <2>6, <2>7 DEF Turning, Bounded
  <1> QED
    BY <1>1, <1>2

\* There are never more turns than sessions that were started or may be: the sum over
\* all objects of what semaphore and semaphore_Server hold, the clients between the
\* two, and the threads that are yet to create theirs, also after restarts.
THEOREM TurnsBounded == Spec => [](Handles /\ Bounded)
  <1>1. Init => Handles /\ Bounded
    BY InitBounded
  <1>2. Registered /\ Registered' /\ Handles /\ Bounded /\ [Next]_vars
          => Handles' /\ Bounded'
    BY HandlesStep, BoundedStep
  <1> QED
    BY <1>1, <1>2, Registration, PTL DEF Spec

\* All state of the registration is well-formed; counts, numbers and semaphores stay
\* within the sessions there are (listen_addpool, sharedMemCtl, prepare_shm).
THEOREM TypeCorrect == Spec => []TypeOK
  <1>1. Registered /\ Bounded => TypeOK
    <2> SUFFICES ASSUME Registered, Bounded PROVE TypeOK
      OBVIOUS
    <2>1. server \in [up : BOOLEAN, restarts : 0 .. MaxRestarts]
      BY BoundsAssumption DEF Registered, Shape, Bounded
    <2>2. poolRecord \in [Pool -> [live : 0 .. MaxSessions, next : 0 .. MaxSessions]]
      <3>1. ASSUME NEW p \in Pool
            PROVE  /\ poolRecord[p] \in [live : Nat, next : Nat]
                   /\ poolRecord[p].live \in 0 .. MaxSessions
                   /\ poolRecord[p].next \in 0 .. MaxSessions
        <4>1. poolRecord[p] \in [live : Nat, next : Nat] /\ poolRecord[p].live <= MaxSessions
              /\ poolRecord[p].next <= started /\ started \in 0 .. MaxSessions
          BY DEF Registered, Shape, Bounded, Numbers
        <4> QED
          BY <4>1, BoundsAssumption
      <3> QED
        BY <3>1 DEF Registered, Shape
    <2>3. sem \in [Semaphores -> [Sessions -> 0 .. MaxSessions]]
      <3> DEFINE f == Turns(sem, thread)
      <3>1. ASSUME NEW i \in Sessions
            PROVE  /\ sem["request"][i] \in 0 .. MaxSessions
                   /\ sem["Server"][i] \in 0 .. MaxSessions
        <4>1. /\ f[i] \in Nat /\ sem["request"][i] \in Nat /\ sem["Server"][i] \in Nat
              /\ f[i] = sem["request"][i] + sem["Server"][i]
                          + (IF Before(thread[i]) THEN 1 ELSE 0)
          BY TurnsOf DEF Bounded
        <4>2. \A j \in Sessions : f[j] \in Nat
          BY TurnsOf DEF Bounded
        <4> HIDE DEF f
        <4>3. Sum(f, Sessions) = f[i] + Sum(f, Sessions \ {i})
          BY <4>2, SessionsFinite, SumElement
        <4>4. Sum(f, Sessions \ {i}) \in Nat
          BY <4>2, SessionsFinite, SumElement
        <4>5. Cardinality(Holding) \in Nat /\ Sum(f, Sessions) + Cardinality(Holding) <= MaxSessions
          BY FS_CardinalityType DEF Bounded, f
        <4> QED
          BY <4>1, <4>3, <4>4, <4>5, BoundsAssumption
      <3>2. \A i \in Sessions : sem["getback"][i] \in 0 .. MaxSessions
        BY BoundsAssumption DEF Bounded
      <3> HIDE DEF f
      <3> QED
        BY <3>1, <3>2 DEF Bounded, Semaphores
    <2>4. ASSUME NEW i \in Sessions
          PROVE  thread[i].at \in ThreadStates /\ thread[i].has \in [Resources -> Objects]
      BY DEF Registered, Shape, Threads
    <2>5. ASSUME NEW c \in Client
          PROVE  client[c].at \in ClientStates /\ client[c].has \in [Resources -> Objects]
      BY DEF Registered, Shape, Clients
    <2> QED
      BY <2>1, <2>2, <2>3, <2>4, <2>5
      DEF TypeOK, Registered, Shape, Bounded, Objects, ThreadStates, ClientStates
  <1>2. Spec => []Bounded
    BY TurnsBounded, PTL
  <1> QED
    BY <1>1, <1>2, Registration, PTL
=============================================================================
