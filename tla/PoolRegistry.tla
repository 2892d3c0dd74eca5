---------------------------- MODULE PoolRegistry ----------------------------
(***************************************************************************)
(* How sessions of the cache server come and go: the listener thread that  *)
(* answers "A:<pool>" (listen_addpool), the records of pools it shares     *)
(* with the session threads (poolRecord), the names under which a session  *)
(* thread creates and removes its message area and its semaphores          *)
(* (sharedMemCtl), and the client that finds them by name (addpool,        *)
(* prepare_shm, ~CachelibClient).  The names belong to the operating       *)
(* system: they outlive the server's process.  What a session does between *)
(* its creation and its end is kept to setKV; ShmSession has the rest.     *)
(***************************************************************************)
EXTENDS Naturals, FiniteSets, Sequences

CONSTANTS
  Pool,
  Client,
  MaxSessions,  \* bound: session threads ever started
  MaxRestarts   \* bound: how often the server is stopped

ASSUME BoundsAssumption == MaxSessions \in Nat /\ MaxRestarts \in Nat

VARIABLES
  server,      \* [up, restarts]
  listener,    \* the "A:" request the listener is working on
  poolRecord,  \* per pool: live sessions, and the number of the next one
  started,     \* session threads started so far
  thread,      \* per session thread: control state, pool, number, handles
  client,      \* per client: control state, pool, handles
  named,       \* per resource and name: the session that created the object
  sem,         \* values of the semaphores, by the session that created them
  area         \* message areas, by the session that created them

vars == <<server, listener, poolRecord, started, thread, client, named, sem, area>>

Sessions == 1 .. MaxSessions
Nobody   == 0                      \* no such object
Names    == Pool \X (0 .. MaxSessions - 1)
NoName   == <<Nobody, 0>>

\* A session's resources in the order in which both sides open them and the
\* thread removes them.
Semaphores == {"request", "Server", "getback"}
Resources  == {"shm"} \cup Semaphores
Order      == <<"shm", "request", "Server", "getback">>

\* semaphore_Server starts taken.
InitiallyZero(r) == 0

Initially(r) == IF r = "Server" THEN 1 ELSE 0

NoHandles == [r \in Resources |-> Nobody]
Idle      == [at |-> "accept", client |-> Nobody, pool |-> Nobody]

Init ==
  /\ server     = [up |-> TRUE, restarts |-> 0]
  /\ listener   = Idle
  /\ poolRecord = [p \in Pool |-> [live |-> 0, next |-> 0]]
  /\ started    = 0
  /\ thread     = [i \in Sessions |->
                     [at |-> "none", step |-> 1, name |-> NoName, has |-> NoHandles]]
  /\ client     = [c \in Client |->
                     [at |-> "new", step |-> 1, pool |-> Nobody, name |-> NoName,
                      session |-> Nobody, has |-> NoHandles]]
  /\ named      = [r \in Resources |-> [n \in Names |-> Nobody]]
  /\ sem        = [r \in Semaphores |-> [i \in Sessions |-> 0]]
  /\ area       = [i \in Sessions |-> [sized |-> FALSE, ctrl |-> "SET"]]

-----------------------------------------------------------------------------
(***************************************************************************)
(* The listener.                                                           *)
(***************************************************************************)
listenerOnly == <<server, started, thread, named, sem, area>>

\* accept and recv; addpool_ is PoolResize's.
Accept(c) ==
  /\ server.up /\ listener = Idle
  /\ client[c].at = "asked"
  /\ listener' = [at |-> "check", client |-> c, pool |-> client[c].pool]
  /\ UNCHANGED <<listenerOnly, poolRecord, client>>

\* The look-up takes a pool with one session for a new one.
CheckRecordOffByOne ==
  /\ listener.at = "check"
  /\ listener' = [listener EXCEPT !.at =
                    IF poolRecord[listener.pool].live <= 1 THEN "new" ELSE "more"]
  /\ UNCHANGED <<listenerOnly, poolRecord, client>>

\* The look-up of the pool's record, outside slockForRecord.
CheckRecord ==
  /\ listener.at = "check"
  /\ listener' = [listener EXCEPT !.at =
                    IF poolRecord[listener.pool].live = 0 THEN "new" ELSE "more"]
  /\ UNCHANGED <<listenerOnly, poolRecord, client>>

\* The session is not counted.
CountedNot(rec) == [rec EXCEPT !.next = @ + 1]

\* The number of the session is not used up.
CountedSameNumber(rec) == [rec EXCEPT !.live = @ + 1]

Counted(rec) == [live |-> rec.live + 1, next |-> rec.next + 1]

\* Under slockForRecord: count the session in and number it.  Then start its
\* thread and send its name to the client.
AddSession ==
  LET p   == listener.pool
      rec == IF listener.at = "new" THEN [live |-> 0, next |-> 0] ELSE poolRecord[p]
      i   == started + 1
  IN /\ listener.at \in {"new", "more"}
     /\ started < MaxSessions
     /\ poolRecord' = [poolRecord EXCEPT ![p] = Counted(rec)]
     /\ started' = i
     /\ thread' = [thread EXCEPT ![i] = [at |-> "open", step |-> 1,
                                         name |-> <<p, rec.next>>, has |-> NoHandles]]
     /\ client' = [client EXCEPT ![listener.client] =
                     [@ EXCEPT !.at = "open", !.name = <<p, rec.next>>, !.session = i]]
     /\ listener' = Idle
     /\ UNCHANGED <<server, named, sem, area>>

ListenerStep == (\E c \in Client : Accept(c)) \/ CheckRecord \/ AddSession

-----------------------------------------------------------------------------
(***************************************************************************)
(* A session's thread.                                                     *)
(***************************************************************************)
ThreadAt(i, at) == server.up /\ thread[i].at = at

\* The state after the step-th of the resources is dealt with.
Following(t, next) ==
  IF t.step = Len(Order) THEN [t EXCEPT !.at = next, !.step = 1]
                         ELSE [t EXCEPT !.step = @ + 1]

\* The third semaphore is never created.
ThreadOpenNoGetback(i) ==
  LET r == Order[thread[i].step]
      n == thread[i].name
      t == [thread[i] EXCEPT !.has[r] = i]
  IN /\ ThreadAt(i, "open")
     /\ named' = IF r = "getback" THEN named ELSE [named EXCEPT ![r][n] = i]
     /\ thread' = [thread EXCEPT ![i] = IF r = "shm" THEN [t EXCEPT !.at = "size"]
                                                     ELSE Following(t, "loop")]
     /\ sem' = IF r \in Semaphores THEN [sem EXCEPT ![r][i] = Initially(r)] ELSE sem
     /\ UNCHANGED <<server, listener, poolRecord, started, client, area>>

\* shm_open and sem_open with O_CREAT: an object that has the name already is
\* opened as it is.
ThreadOpen(i) ==
  LET r    == Order[thread[i].step]
      n    == thread[i].name
      free == named[r][n] = Nobody
      o    == IF free THEN i ELSE named[r][n]
      t    == [thread[i] EXCEPT !.has[r] = o]
  IN /\ ThreadAt(i, "open")
     /\ named' = [named EXCEPT ![r][n] = o]
     /\ thread' = [thread EXCEPT ![i] = IF r = "shm" THEN [t EXCEPT !.at = "size"]
                                                     ELSE Following(t, "loop")]
     /\ IF free /\ r \in Semaphores
          THEN sem' = [sem EXCEPT ![r][i] = Initially(r)]
          ELSE UNCHANGED sem
     /\ UNCHANGED <<server, listener, poolRecord, started, client, area>>

\* The area is not given its size.
SizeAreaNot(i) ==
  /\ ThreadAt(i, "size")
  /\ thread' = [thread EXCEPT ![i] = [@ EXCEPT !.at = "open", !.step = 2]]
  /\ UNCHANGED <<server, listener, poolRecord, started, client, named, sem, area>>

\* ftruncate: a new area gets its size and zero bytes, an old one keeps its
\* contents.
SizeArea(i) ==
  /\ ThreadAt(i, "size")
  /\ area'   = [area EXCEPT ![thread[i].has["shm"]].sized = TRUE]
  /\ thread' = [thread EXCEPT ![i] = [@ EXCEPT !.at = "open", !.step = 2]]
  /\ UNCHANGED <<server, listener, poolRecord, started, client, named, sem>>

\* CLOSE does not end the loop.
HandleRequestForever(i) ==
  LET has == thread[i].has
  IN /\ ThreadAt(i, "loop")
     /\ sem["request"][has["request"]] > 0
     /\ sem' = [sem EXCEPT !["request"][has["request"]] = @ - 1,
                           !["Server"][has["Server"]] = @ + 1]
     /\ UNCHANGED <<server, listener, poolRecord, started, thread, client, named, area>>

\* Handle the request in the area and give the area free; on CLOSE leave the
\* loop.
HandleRequest(i) ==
  LET has == thread[i].has
  IN /\ ThreadAt(i, "loop")
     /\ sem["request"][has["request"]] > 0
     /\ sem' = [sem EXCEPT !["request"][has["request"]] = @ - 1,
                           !["Server"][has["Server"]] = @ + 1]
     /\ thread' = [thread EXCEPT ![i].at =
                     IF area[has["shm"]].ctrl = "CLOSE" THEN "unlink" ELSE "loop"]
     /\ UNCHANGED <<server, listener, poolRecord, started, client, named, area>>

\* The third semaphore keeps its name.
UnlinkAllButGetback(i) ==
  LET r == Order[thread[i].step]
  IN /\ ThreadAt(i, "unlink")
     /\ named'  = IF r = "getback" THEN named
                  ELSE [named EXCEPT ![r][thread[i].name] = Nobody]
     /\ thread' = [thread EXCEPT ![i] = Following(@, "count")]
     /\ UNCHANGED <<server, listener, poolRecord, started, client, sem, area>>

\* shm_unlink and sem_unlink of one name.
Unlink(i) ==
  LET r == Order[thread[i].step]
  IN /\ ThreadAt(i, "unlink")
     /\ named'  = [named EXCEPT ![r][thread[i].name] = Nobody]
     /\ thread' = [thread EXCEPT ![i] = Following(@, "count")]
     /\ UNCHANGED <<server, listener, poolRecord, started, client, sem, area>>

\* Under slockForRecord.
CountOut(i) ==
  /\ ThreadAt(i, "count")
  /\ poolRecord' = [poolRecord EXCEPT ![thread[i].name[1]].live = @ - 1]
  /\ thread' = [thread EXCEPT ![i].at = "ended"]
  /\ UNCHANGED <<server, listener, started, client, named, sem, area>>

ThreadStep(i) ==
  \/ ThreadOpen(i) \/ SizeArea(i) \/ HandleRequest(i) \/ Unlink(i) \/ CountOut(i)

-----------------------------------------------------------------------------
(***************************************************************************)
(* A client.                                                               *)
(***************************************************************************)
ClientAt(c, at) ==
  /\ client[c].at = at
  /\ UNCHANGED <<server, listener, poolRecord, started, thread, named>>

\* addpool: connect and send the name of the pool.
Ask(c, p) ==
  /\ ClientAt(c, "new")
  /\ server.up
  /\ client' = [client EXCEPT ![c] = [@ EXCEPT !.at = "asked", !.pool = p]]
  /\ UNCHANGED <<sem, area>>

\* A semaphore that is not there yet is given up.
ClientOpenOnce(c) ==
  LET r == Order[client[c].step]
      o == named[r][client[c].name]
  IN /\ ClientAt(c, "open")
     /\ r = "shm" => o # Nobody
     /\ client' = [client EXCEPT ![c] = Following([@ EXCEPT !.has[r] = o], "attach")]
     /\ UNCHANGED <<sem, area>>

\* prepare_shm: shm_open and sem_open without O_CREAT, each tried until the
\* object is there.
ClientOpen(c) ==
  LET r == Order[client[c].step]
      o == named[r][client[c].name]
  IN /\ ClientAt(c, "open")
     /\ o # Nobody
     /\ client' = [client EXCEPT ![c] = Following([@ EXCEPT !.has[r] = o], "attach")]
     /\ UNCHANGED <<sem, area>>

\* The end of prepare_shm: the first write to the area.
Attach(c) ==
  /\ ClientAt(c, "attach")
  /\ client' = [client EXCEPT ![c].at = "ready"]
  /\ UNCHANGED <<sem, area>>

\* setKV or the destructor takes semaphore_Server ...
Take(c, ctrl) ==
  LET o == client[c].has["Server"]
  IN /\ ClientAt(c, "ready")
     /\ sem["Server"][o] > 0
     /\ sem' = [sem EXCEPT !["Server"][o] = @ - 1]
     /\ area' = [area EXCEPT ![client[c].has["shm"]].ctrl = ctrl]
     /\ client' = [client EXCEPT ![c].at = IF ctrl = "CLOSE" THEN "closing" ELSE "using"]

\* ... and posts its request.
PostRequest(c) ==
  /\ ClientAt(c, client[c].at)
  /\ client[c].at \in {"using", "closing"}
  /\ sem' = [sem EXCEPT !["request"][client[c].has["request"]] = @ + 1]
  /\ client' = [client EXCEPT ![c].at = IF @ = "using" THEN "ready" ELSE "gone"]
  /\ UNCHANGED area

ClientStep(c) == ClientOpen(c) \/ Attach(c) \/ PostRequest(c)

-----------------------------------------------------------------------------
(***************************************************************************)
(* The server is told to end ("E") or is killed: its threads and records   *)
(* are gone, the objects and their names stay.  A client that waits for    *)
(* the answer of the listener exits.                                       *)
(***************************************************************************)
Stop ==
  /\ server.up /\ server.restarts < MaxRestarts
  /\ server' = [server EXCEPT !.up = FALSE]
  /\ listener' = Idle
  /\ thread' = [i \in Sessions |->
                  IF thread[i].at = "none" THEN thread[i]
                  ELSE [thread[i] EXCEPT !.at = "killed"]]
  /\ client' = [c \in Client |->
                  IF client[c].at = "asked" THEN [client[c] EXCEPT !.at = "gone"]
                                            ELSE client[c]]
  /\ UNCHANGED <<poolRecord, started, named, sem, area>>

Start ==
  /\ ~server.up
  /\ server' = [up |-> TRUE, restarts |-> server.restarts + 1]
  /\ poolRecord' = [p \in Pool |-> [live |-> 0, next |-> 0]]
  /\ UNCHANGED <<listener, started, thread, client, named, sem, area>>

Next ==
  \/ ListenerStep
  \/ \E i \in Sessions : ThreadStep(i)
  \/ \E c \in Client : \/ \E p \in Pool : Ask(c, p)
                       \/ ClientStep(c)
                       \/ \E ctrl \in {"SET", "CLOSE"} : Take(c, ctrl)
  \/ Stop \/ Start

\* The listener, the session threads and the clients run on; nobody has to ask
\* for a pool, to make a call, or to stop or start the server.
Fairness ==
  /\ WF_vars(ListenerStep)
  /\ \A i \in Sessions : WF_vars(ThreadStep(i))
  /\ \A c \in Client : WF_vars(ClientStep(c))

Spec     == Init /\ [][Next]_vars
FairSpec == Spec /\ Fairness

-----------------------------------------------------------------------------
Live(i)     == thread[i].at \in {"open", "size", "loop", "unlink", "count"}
Attached(c) == client[c].at \in {"attach", "ready", "using", "closing"}

\* The server has run without a stop so far.
FirstRun == server.up /\ server.restarts = 0

TypeOK ==
  /\ server \in [up : BOOLEAN, restarts : 0 .. MaxRestarts]
  /\ listener \in [at : {"accept", "check", "new", "more"},
                   client : {Nobody} \cup Client, pool : {Nobody} \cup Pool]
  /\ poolRecord \in [Pool -> [live : 0 .. MaxSessions, next : 0 .. MaxSessions]]
  /\ started \in 0 .. MaxSessions
  /\ \A i \in Sessions :
       /\ thread[i].at \in {"none", "open", "size", "loop", "unlink", "count",
                            "ended", "killed"}
       /\ thread[i].has \in [Resources -> {Nobody} \cup Sessions]
  /\ \A c \in Client :
       /\ client[c].at \in {"new", "asked", "open", "attach", "ready", "using",
                            "closing", "gone"}
       /\ client[c].has \in [Resources -> {Nobody} \cup Sessions]
  /\ named \in [Resources -> [Names -> {Nobody} \cup Sessions]]
  /\ sem \in [Semaphores -> [Sessions -> 0 .. MaxSessions]]
  /\ area \in [Sessions -> [sized : BOOLEAN, ctrl : {"SET", "CLOSE"}]]

\* Two session threads never have one name, one area or one semaphore between
\* them, although names are used again and the check for that reads the count
\* outside the lock (server.cpp:276-289, 206-220).
Apart ==
  \A i, j \in Sessions :
    Live(i) /\ Live(j) /\ i # j =>
      /\ thread[i].name # thread[j].name
      /\ \A r \in Resources : thread[i].has[r] = thread[j].has[r] => thread[i].has[r] = Nobody

\* The count of a pool's record is the number of its sessions that are not
\* counted out yet, also after a restart (server.cpp:279-288, 218-220).
CountExact ==
  server.up => \A p \in Pool :
    poolRecord[p].live = Cardinality({i \in Sessions : Live(i) /\ thread[i].name[1] = p})

\* A client that found its names talks to the thread that was started for it,
\* over the same four objects, and to no other client (clientAPI.cpp:30-68).
OwnSession ==
  FirstRun => \A c \in Client : Attached(c) =>
    /\ client[c].has = thread[client[c].session].has
    /\ \A d \in Client \ {c} : Attached(d) =>
         \A r \in Resources : client[c].has[r] # client[d].has[r]

\* A client writes to an area only after the thread gave it its size: it waits
\* for semaphores that are created after that (server.cpp:95-126).
SizedBeforeUse ==
  FirstRun => \A c \in Client :
    client[c].at \in {"ready", "using", "closing"} => area[client[c].has["shm"]].sized

\* When all sessions of a pool have been counted out, none of their names is
\* left behind, so that the numbers can start from 0 again (server.cpp:206-220).
NothingLeft ==
  FirstRun => \A p \in Pool :
    poolRecord[p].live = 0 =>
      \A r \in Resources : \A n \in Names : n[1] = p => named[r][n] = Nobody

\* server.cpp:94 "create new shared memory" and 116 "create new semaphore": a
\* thread starts its loop with the area free and no request in it.
StartsFresh(i) ==
  thread[i].at = "open" /\ thread'[i].at = "loop" =>
    /\ sem'["Server"][thread'[i].has["Server"]] = 1
    /\ sem'["request"][thread'[i].has["request"]] = 0

FreshStart == [][\A i \in Sessions : StartsFresh(i)]_vars

\* The same while the server has not been stopped.
FreshFirstStart == [][FirstRun => \A i \in Sessions : StartsFresh(i)]_vars

\* addpool returns, unless the server is stopped.
AddpoolReturns ==
  \A c \in Client : client[c].at = "asked" ~> client[c].at = "ready" \/ ~FirstRun

\* The destructor's request is found and the session is taken down, unless the
\* server is stopped.
DestructorEnds ==
  \A c \in Client : client[c].at = "gone" ~>
    client[c].session = Nobody \/ thread[client[c].session].at = "ended" \/ ~FirstRun
=============================================================================
