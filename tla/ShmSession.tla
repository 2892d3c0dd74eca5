----------------------------- MODULE ShmSession -----------------------------
(***************************************************************************)
(* The shared-memory sessions of the cache server: on one side the client  *)
(* library (clientserver/clientserver/clientAPI.cpp), on the other one     *)
(* server thread per session (sharedMemCtl in server.cpp).  A session has  *)
(* one message area and three semaphores of its own; all sessions share    *)
(* the cache.  Server threads and clients interleave freely, one semaphore *)
(* operation or one access to the message area or the cache per step.      *)
(***************************************************************************)
EXTENDS CacheCalls, Naturals

VARIABLES
  client,             \* control state of the client
  call,               \* arguments of the client's call; value is also the
                      \* member getValue that getKV copies the answer to
  crashed,            \* the clients whose process was killed
  message,            \* shm_stru, the message area
  semaphore,          \* the server has a request to handle
  semaphore_Server,   \* the message area is free to begin a new request
  semaphore_GetBack,  \* the client can read the result of its getKV
  thread,             \* control state of the session's server thread
  cache               \* what the cache holds for each key; external

clientVars == <<client, call>>
vars == <<client, call, crashed, message, semaphore, semaphore_Server,
          semaphore_GetBack, thread, cache>>

ClientStates == {"idle", "call", "fill", "post", "await", "copy", "release", "gone"}
ThreadStates == {"wait", "serve", "postServer", "postGetBack", "postServerDel",
                 "postServerClose", "cleanup", "ended"}

Init ==
  /\ client  = [s \in Session |-> "idle"]
  /\ call    = [s \in Session |-> NoCall]
  /\ crashed = {}
  \* ftruncate leaves zero bytes, and SIG_SET is 0
  /\ message = [s \in Session |-> [ctrl |-> "SET", key |-> NoKey, value |-> NoValue]]
  /\ semaphore         = [s \in Session |-> 0]
  /\ semaphore_Server  = [s \in Session |-> 1]
  /\ semaphore_GetBack = [s \in Session |-> 0]
  /\ thread  = [s \in Session |-> "wait"]
  /\ cache   = [k \in Key |-> NoValue]

Post(sem, s)    == sem' = [sem EXCEPT ![s] = @ + 1]
Waited(sem, s)  == sem[s] > 0 /\ sem' = [sem EXCEPT ![s] = @ - 1]

-----------------------------------------------------------------------------
(***************************************************************************)
(* The client.                                                             *)
(***************************************************************************)
ClientAt(s, from, to) ==
  /\ s \notin crashed
  /\ client[s] = from
  /\ client' = [client EXCEPT ![s] = to]
  /\ UNCHANGED <<crashed, thread, cache>>

\* The program calls setKV, getKV, delKV or the destructor.
Invoke(s, c) ==
  /\ ClientAt(s, "idle", "call")
  /\ call' = [call EXCEPT ![s] = c]
  /\ UNCHANGED <<message, semaphore, semaphore_Server, semaphore_GetBack>>

\* A call without the wait for semaphore_Server.
AcquireUnguarded(s) ==
  /\ ClientAt(s, "call", "fill")
  /\ UNCHANGED <<call, message, semaphore, semaphore_Server, semaphore_GetBack>>

\* Every call first takes semaphore_Server, spinning on sem_trywait or in
\* sem_wait.
Acquire(s) ==
  /\ ClientAt(s, "call", "fill")
  /\ Waited(semaphore_Server, s)
  /\ UNCHANGED <<call, message, semaphore, semaphore_GetBack>>

\* getKV without the memset of the value.
FilledUncleared(m, c) ==
  IF c.ctrl = "GET" THEN [m EXCEPT !.ctrl = c.ctrl, !.key = c.key]
  ELSE IF c.ctrl = "CLOSE" THEN [m EXCEPT !.ctrl = c.ctrl]
  ELSE c

\* What the client writes: the destructor only ctrl; the calls clear the key
\* and the value, and then write the key, and setKV the value.
Filled(m, c) ==
  IF c.ctrl = "CLOSE" THEN [m EXCEPT !.ctrl = c.ctrl] ELSE c

Fill(s) ==
  /\ ClientAt(s, "fill", "post")
  /\ message' = [message EXCEPT ![s] = Filled(@, call[s])]
  /\ UNCHANGED <<call, semaphore, semaphore_Server, semaphore_GetBack>>

AfterPost(c) ==
  CASE c.ctrl = "GET"   -> "await"
    [] c.ctrl = "CLOSE" -> "gone"
    [] OTHER            -> "idle"

\* setKV and delKV return and the destructor unmaps the area as soon as the
\* request is posted; getKV waits for its answer.
PostRequest(s) ==
  /\ ClientAt(s, "post", AfterPost(call[s]))
  /\ Post(semaphore, s)
  /\ call' = [call EXCEPT ![s] = IF @.ctrl = "GET" THEN @ ELSE NoCall]
  /\ UNCHANGED <<message, semaphore_Server, semaphore_GetBack>>

\* getKV without the wait for semaphore_GetBack.
AnsweredUnguarded(s) ==
  /\ ClientAt(s, "await", "copy")
  /\ UNCHANGED <<call, message, semaphore, semaphore_Server, semaphore_GetBack>>

Answered(s) ==
  /\ ClientAt(s, "await", "copy")
  /\ Waited(semaphore_GetBack, s)
  /\ UNCHANGED <<call, message, semaphore, semaphore_Server>>

Copy(s) ==
  /\ ClientAt(s, "copy", "release")
  /\ call' = [call EXCEPT ![s].value = message[s].value]
  /\ UNCHANGED <<message, semaphore, semaphore_Server, semaphore_GetBack>>

\* getKV gives the area free and returns getValue.
Release(s) ==
  /\ ClientAt(s, "release", "idle")
  /\ Post(semaphore_Server, s)
  /\ call' = [call EXCEPT ![s] = NoCall]
  /\ UNCHANGED <<message, semaphore, semaphore_GetBack>>

ClientStep(s) ==
  \/ Acquire(s) \/ Fill(s) \/ PostRequest(s)
  \/ Answered(s) \/ Copy(s) \/ Release(s)

\* The client's process is killed; its semaphores keep their values.
Crash(s) ==
  /\ s \notin crashed
  /\ client[s] # "gone"
  /\ crashed' = crashed \cup {s}
  /\ UNCHANGED <<client, call, message, semaphore, semaphore_Server,
                 semaphore_GetBack, thread, cache>>

-----------------------------------------------------------------------------
(***************************************************************************)
(* The server thread of the session.                                       *)
(***************************************************************************)
ThreadAt(s, from, to) ==
  /\ thread[s] = from
  /\ thread' = [thread EXCEPT ![s] = to]
  /\ UNCHANGED <<clientVars, crashed>>

\* The thread does not wait for a request.
TakeUnguarded(s) ==
  /\ ThreadAt(s, "wait", "serve")
  /\ semaphore' = [semaphore EXCEPT ![s] = @ - 1]
  /\ UNCHANGED <<message, semaphore_Server, semaphore_GetBack, cache>>

\* The thread gives the area free before it reads the request.
TakeAndRelease(s) ==
  /\ ThreadAt(s, "wait", "serve")
  /\ Waited(semaphore, s)
  /\ Post(semaphore_Server, s)
  /\ UNCHANGED <<message, semaphore_GetBack, cache>>

\* sem_trywait up to MAX_WAIT times, then sem_wait: either way the thread goes
\* on with one unit of the semaphore.
Take(s) ==
  /\ ThreadAt(s, "wait", "serve")
  /\ Waited(semaphore, s)
  /\ UNCHANGED <<message, semaphore_Server, semaphore_GetBack, cache>>

\* set_: allocate may return no handle, and then nothing is stored and what
\* the cache held before stays.
ServeSet(s) ==
  /\ message[s].ctrl = "SET"
  /\ ThreadAt(s, "serve", "postServer")
  /\ \/ cache' = [cache EXCEPT ![message[s].key] = message[s].value]
     \/ UNCHANGED cache
  /\ UNCHANGED <<message, semaphore, semaphore_Server, semaphore_GetBack>>

\* get_: on a miss the value in the area stays as the client left it.
ServeGet(s) ==
  /\ message[s].ctrl = "GET"
  /\ ThreadAt(s, "serve", "postGetBack")
  /\ message' = [message EXCEPT ![s].value =
                   IF cache[message[s].key] = NoValue THEN @ ELSE cache[message[s].key]]
  /\ UNCHANGED <<semaphore, semaphore_Server, semaphore_GetBack, cache>>

ServeDel(s) ==
  /\ message[s].ctrl = "DEL"
  /\ ThreadAt(s, "serve", "postServerDel")
  /\ cache' = [cache EXCEPT ![message[s].key] = NoValue]
  /\ UNCHANGED <<message, semaphore, semaphore_Server, semaphore_GetBack>>

ServeClose(s) ==
  /\ message[s].ctrl = "CLOSE"
  /\ ThreadAt(s, "serve", "postServerClose")
  /\ UNCHANGED <<message, semaphore, semaphore_Server, semaphore_GetBack, cache>>

\* The answer of a set is never posted.
PostNothing(s) ==
  /\ ThreadAt(s, "postServer", "wait")
  /\ UNCHANGED <<message, semaphore, semaphore_Server, semaphore_GetBack, cache>>

\* The SET case falls through as the DEL case does.
PostAndFallThrough(s) ==
  /\ ThreadAt(s, "postServer", "postServerClose")
  /\ Post(semaphore_Server, s)
  /\ UNCHANGED <<message, semaphore, semaphore_GetBack, cache>>

PostServer(s) ==
  /\ ThreadAt(s, "postServer", "wait")
  /\ Post(semaphore_Server, s)
  /\ UNCHANGED <<message, semaphore, semaphore_GetBack, cache>>

\* The GET case frees the area as the SET case does.
PostGetBackAndServer(s) ==
  /\ ThreadAt(s, "postGetBack", "wait")
  /\ Post(semaphore_GetBack, s)
  /\ Post(semaphore_Server, s)
  /\ UNCHANGED <<message, semaphore, cache>>

PostGetBack(s) ==
  /\ ThreadAt(s, "postGetBack", "wait")
  /\ Post(semaphore_GetBack, s)
  /\ UNCHANGED <<message, semaphore, semaphore_Server, cache>>

\* The DEL case has no break: it goes on into the CLOSE case.
PostServerDel(s) ==
  /\ ThreadAt(s, "postServerDel", "postServerClose")
  /\ Post(semaphore_Server, s)
  /\ UNCHANGED <<message, semaphore, semaphore_GetBack, cache>>

\* The CLOSE case does not clear available.
PostServerStay(s) ==
  /\ ThreadAt(s, "postServerClose", "wait")
  /\ Post(semaphore_Server, s)
  /\ UNCHANGED <<message, semaphore, semaphore_GetBack, cache>>

PostServerClose(s) ==
  /\ ThreadAt(s, "postServerClose", "cleanup")
  /\ Post(semaphore_Server, s)
  /\ UNCHANGED <<message, semaphore, semaphore_GetBack, cache>>

\* Unmap, close, unlink and count the session out of its pool; the client's
\* own mapping and semaphores outlive the names.
Cleanup(s) ==
  /\ ThreadAt(s, "cleanup", "ended")
  /\ UNCHANGED <<message, semaphore, semaphore_Server, semaphore_GetBack, cache>>

Serve(s) == ServeSet(s) \/ ServeGet(s) \/ ServeDel(s) \/ ServeClose(s)

ThreadStep(s) ==
  \/ Take(s) \/ Serve(s)
  \/ PostServer(s) \/ PostGetBack(s) \/ PostServerDel(s) \/ PostServerClose(s)
  \/ Cleanup(s)

\* CacheLib evicts an entry to make room for another.
Evict(k) ==
  /\ cache[k] # NoValue
  /\ cache' = [cache EXCEPT ![k] = NoValue]
  /\ UNCHANGED <<client, call, crashed, message, semaphore, semaphore_Server,
                 semaphore_GetBack, thread>>

Next ==
  \/ \E s \in Session : \/ \E c \in Calls : Invoke(s, c)
                        \/ ClientStep(s)
                        \/ Crash(s)
                        \/ ThreadStep(s)
  \/ \E k \in Key : Evict(k)

\* Spinning or blocked, a client that is not killed and a server thread run on
\* when they can; nobody has to make another call.
Fairness == \A s \in Session : WF_vars(ClientStep(s)) /\ WF_vars(ThreadStep(s))

Spec     == Init /\ [][Next]_vars
FairSpec == Spec /\ Fairness

-----------------------------------------------------------------------------
TypeOK ==
  /\ client  \in [Session -> ClientStates]
  /\ call    \in [Session -> [ctrl : {"SET", "GET", "DEL", "CLOSE", "NONE"},
                              key : Key \cup {NoKey}, value : Content]]
  /\ crashed \in SUBSET Session
  /\ message \in [Session -> [ctrl : {"SET", "GET", "DEL", "CLOSE"},
                              key : Key \cup {NoKey}, value : Content]]
  /\ semaphore         \in [Session -> Nat]
  /\ semaphore_Server  \in [Session -> Nat]
  /\ semaphore_GetBack \in [Session -> Nat]
  /\ thread  \in [Session -> ThreadStates]
  /\ cache   \in [Key -> Content]

\* The message area is never written or copied by the client while the server
\* thread reads or answers the request in it: no semaphore is posted early and
\* none is waited for too late (clientAPI.cpp:118-148, server.cpp:133-168).
NoRace ==
  \A s \in Session : client[s] \in {"fill", "post", "copy"} => thread[s] # "serve"

\* What getKV returns was stored under the key it asked for: nothing is left
\* in the area from an earlier call, although a miss writes nothing there and
\* setKV leaves its value behind (clientAPI.cpp:142, server.cpp:153).
AnswerIsOfKey ==
  \A s \in Session :
    client[s] = "release" => call[s].value \in ValueOf(call[s].key) \cup {NoValue}

\* server.cpp:123: semaphore_Server "indicates whether the shared memory is
\* free to begin a new request": when it can be taken, the request before is
\* done with, and the client is in no earlier call.
FreeMeansFree ==
  \A s \in Session :
    semaphore_Server[s] > 0 =>
      /\ semaphore[s] = 0 /\ semaphore_GetBack[s] = 0
      /\ thread[s] \notin {"serve", "postServer", "postGetBack", "postServerDel"}
      /\ client[s] \in {"idle", "call", "gone"}

-----------------------------------------------------------------------------
(***************************************************************************)
(* The sessions implement CacheService as long as no client calls delKV.   *)
(***************************************************************************)
Pending(s) == semaphore[s] > 0 \/ thread[s] = "serve"

\* ~CachelibClient() leaves the key and the value of the call before.
Request(m) == IF m.ctrl = "CLOSE" THEN CloseCall ELSE m

StageOf(s) ==
  IF client[s] = "idle" THEN "idle"
  ELSE IF client[s] \in {"call", "fill", "post"} THEN "called"
  ELSE IF client[s] = "gone" THEN "closed"
  ELSE IF client[s] = "await" /\ Pending(s) THEN "sent"
  ELSE "answered"

CallingOf(s) ==
  IF client[s] = "release" THEN [call[s] EXCEPT !.value = NoValue] ELSE call[s]

InboxOf(s) == IF Pending(s) THEN Request(message[s]) ELSE NoCall

AnswerOf(s) ==
  IF StageOf(s) # "answered" THEN NoValue
  ELSE IF client[s] = "release" THEN call[s].value ELSE message[s].value

Stages   == [s \in Session |-> StageOf(s)]
Callings == [s \in Session |-> CallingOf(s)]
Inboxes  == [s \in Session |-> InboxOf(s)]
Answers  == [s \in Session |-> AnswerOf(s)]

Service == INSTANCE CacheService WITH
  stage <- Stages, calling <- Callings, inbox <- Inboxes, answer <- Answers

\* Every call is executed exactly once, in the order of the client's calls,
\* with the arguments of that call, and getKV returns what the cache held when
\* the server looked the key up: nothing is overwritten before it is executed,
\* although setKV returns before it is.
ImplementsService == Service!Spec

\* A call returns, or its client was killed.
CallsReturn ==
  \A s \in Session : client[s] = "call" ~> client[s] \in {"idle", "gone"} \/ s \in crashed

\* A request that was posted is executed, even when its setKV has returned and
\* its client is gone or killed.
RequestsServed == \A s \in Session : Pending(s) ~> ~Pending(s)

\* The destructor ends the server thread, which gives the session's resources
\* back (server.cpp:169-222).
CloseEnds == \A s \in Session : client[s] = "gone" ~> thread[s] = "ended"
-----------------------------------------------------------------------------
(***************************************************************************)
(* The inductive invariant behind the properties above: the three          *)
(* semaphores and the two control states pass one turn around, and the     *)
(* message area holds what its holder needs.                               *)
(***************************************************************************)
Semaphores(s, request, free, back) ==
  /\ semaphore[s] = request
  /\ semaphore_Server[s] = free
  /\ semaphore_GetBack[s] = back

\* The thread left its loop, on CLOSE or on DEL.
Over(s) == thread[s] \in {"postServerClose", "cleanup", "ended"}

TurnOfNobody(s) ==
  Semaphores(s, 0, 1, 0) /\ thread[s] = "wait" /\ client[s] \in {"idle", "call"}

TurnOfClient(s) ==
  /\ Semaphores(s, 0, 0, 0) /\ thread[s] = "wait"
  /\ client[s] \in {"fill", "post", "copy", "release"}

TurnOfThread(s) ==
  /\ \/ Semaphores(s, 1, 0, 0) /\ thread[s] = "wait"
     \/ Semaphores(s, 0, 0, 0) /\ thread[s] = "serve"
  /\ \/ message[s].ctrl = "GET" /\ client[s] = "await"
     \/ message[s].ctrl = "CLOSE" /\ client[s] = "gone"
     \/ message[s].ctrl \in {"SET", "DEL"} /\ client[s] \in {"idle", "call"}

TurnGoesBack(s) ==
  \/ /\ Semaphores(s, 0, 0, 0) /\ thread[s] \in {"postServer", "postServerDel"}
     /\ client[s] \in {"idle", "call"}
  \/ /\ \/ Semaphores(s, 0, 0, 0) /\ thread[s] = "postGetBack"
        \/ Semaphores(s, 0, 0, 1) /\ thread[s] = "wait"
     /\ client[s] = "await"

\* A thread that has left its loop never touches the area again, and a client
\* it leaves behind never gets an answer.
TurnIsOver(s) ==
  /\ Over(s)
  /\ semaphore_GetBack[s] = 0
  /\ client[s] \notin {"copy", "release"}

Turn(s) ==
  \/ TurnOfNobody(s) \/ TurnOfClient(s) \/ TurnOfThread(s)
  \/ TurnGoesBack(s) \/ TurnIsOver(s)

Arguments(s) ==
  /\ client[s] \in {"call", "fill", "post"} => call[s] \in Calls
  /\ client[s] \in {"await", "copy", "release"} =>
       call[s].ctrl = "GET" /\ call[s].key \in Key
  /\ client[s] \in {"await", "copy"} => call[s].value = NoValue
  /\ client[s] = "release" => call[s].value \in ValueOf(call[s].key) \cup {NoValue}
  /\ client[s] \in {"idle", "gone"} => call[s] = NoCall
  /\ client[s] = "post" => Request(message[s]) = call[s]

Area(s) ==
  ~Over(s) =>
    /\ Pending(s) => Request(message[s]) \in Calls
    /\ Pending(s) /\ client[s] = "await" => message[s] = call[s]
    /\ ~Pending(s) /\ client[s] \in {"await", "copy"} =>
         message[s].value \in ValueOf(call[s].key) \cup {NoValue}

SessionInv(s) == Turn(s) /\ Arguments(s) /\ Area(s)

CacheByKey == \A k \in Key : cache[k] \in ValueOf(k) \cup {NoValue}

\* Exactly one party at a time may use the message area, what is in the area
\* is the request of the call that is waiting for it, and the cache holds every
\* value under its own key (clientAPI.cpp:115-183, server.cpp:129-174).
Inv ==
  /\ TypeOK
  /\ \A s \in Session : SessionInv(s)
  /\ CacheByKey

\* Without delKV the thread leaves its loop only when the client is gone.
OverIsGone(s) ==
  /\ call[s].ctrl # "DEL" /\ message[s].ctrl # "DEL"
  /\ thread[s] # "postServerDel"
  /\ Over(s) => /\ client[s] = "gone"
                /\ Semaphores(s, 0, IF thread[s] = "postServerClose" THEN 0 ELSE 1, 0)

NoDelInv == \A s \in Session : OverIsGone(s)
=============================================================================
